---- MODULE Spec2Model ----
(***************************************************************************)
(* The editing session of the image enhancer: the crop selection hook      *)
(* (useCropSelection) and the ImageComparison component that owns the base  *)
(* bitmap, the control values and the decode+upscale effect.                *)
(*                                                                          *)
(* Numbers that the code keeps as floats (native rect coordinates) are      *)
(* exact rationals [n, d] here; display coordinates and bitmap dimensions   *)
(* are integers.  A bitmap's pixel content is the list of operations that   *)
(* produced it from a decoded source.                                       *)
(***************************************************************************)
EXTENDS Integers, Sequences, FiniteSets, TLC

VARIABLES
    isActive,           \* useCropSelection: useState(false)
    rect,               \* useCropSelection: useState<CropRect|null>(null)
    isDragging,         \* useCropSelection: useState(false)
    startRef,           \* useCropSelection: anchor in display coordinates
    overlayRef,         \* useCropSelection: the element the ref is bound to
    baseCanvasRef,      \* ImageComparison: base bitmap or NULL
    outputCanvasRef,    \* ImageComparison: what the output canvas shows
    values,             \* ImageComparison: EnhancementValues
    appliedCrop,        \* ImageComparison: pending crop handed to applyAdjustments
    displaySize,        \* ImageComparison: measured container size
    isProcessingCanvas, \* ImageComparison: decode+upscale in progress
    enhancedUrl,        \* ImageComparison: the enhancedUrl prop
    pending,            \* decode+upscale promises not yet settled
    used,               \* the URLs the component has been given so far
    lastCall,           \* the operation of the last step, its input and result
    workCanvas,         \* imageProcessing: the bitmap a processing function is given
    fnCall,             \* imageProcessing: the last function applied, its input and result
    appState,           \* App: useState<AppState>('idle')
    originalUrl,        \* App: useState<string|null>(null)
    appEnhancedUrl,     \* App: the enhancedUrl state, useState<string|null>(null)
    errorMessage,       \* App: useState<string|null>(null)
    uploadProgress,     \* App: useState<UploadProgress|null>(null)
    enhancementMode,    \* App: useState(EnhancementMode.standard)
    imageBytesRef,      \* App: the bytes of the selected file
    fileTypeRef,        \* App: the type of the selected file
    originalUrlRef,     \* App: the preview URL to revoke on the next selection
    prevEnhancedUrlRef, \* useProcessImage: the blob URL to revoke on the next run
    mutation,           \* useProcessImage: status, error and data of the mutation
    run,                \* useProcessImage: the position and locals of mutationFn
    preview,            \* ImageUploader: useState<string|null>(null)
    fileName,           \* ImageUploader: useState<string|null>(null)
    uploaderError,      \* ImageUploader: the error state, useState<string|null>(null)
    reads,              \* ImageUploader: file.arrayBuffer() promises not yet settled
    uploadSessions,     \* backend: Map<Text, UploadSession>
    images,             \* backend: Map<Text, [Nat8]>
    nextImageId,        \* backend: var nextImageId
    arrivals,           \* backend: the chunk indexes each session received, in arrival order
    response            \* backend: the last call, its arguments and its reply

hookVars == <<isActive, rect, isDragging, startRef, overlayRef>>
sessionVars == <<baseCanvasRef, outputCanvasRef, values, appliedCrop, displaySize,
                 isProcessingCanvas, enhancedUrl, pending, used>>
imageVars == <<workCanvas, fnCall>>
appVars == <<appState, originalUrl, appEnhancedUrl, errorMessage, uploadProgress,
             enhancementMode, imageBytesRef, fileTypeRef, originalUrlRef,
             prevEnhancedUrlRef, mutation, run, preview, fileName, uploaderError,
             reads>>
backendVars == <<uploadSessions, images, nextImageId, arrivals, response>>
vars == <<isActive, rect, isDragging, startRef, overlayRef, baseCanvasRef,
          outputCanvasRef, values, appliedCrop, displaySize, isProcessingCanvas,
          enhancedUrl, pending, used, lastCall, workCanvas, fnCall,
          appState, originalUrl, appEnhancedUrl, errorMessage, uploadProgress,
          enhancementMode, imageBytesRef, fileTypeRef, originalUrlRef,
          prevEnhancedUrlRef, mutation, run, preview, fileName, uploaderError,
          reads, uploadSessions, images, nextImageId, arrivals, response>>

\* what the steps of the editing session leave alone, what the steps of the
\* processing functions leave alone, and the same for the App and the backend
outsideSession == <<imageVars, appVars, backendVars>>
outsideImage == <<hookVars, sessionVars, lastCall, appVars, backendVars>>
outsideApp == <<hookVars, sessionVars, lastCall, imageVars, backendVars>>
outsideBackend == <<hookVars, sessionVars, lastCall, imageVars, appVars>>

NULL == [null |-> TRUE]

\* a Map without entries
EmptyMap == [k \in {} |-> NULL]

----------------------------------------------------------------------------
(* Bounds of the model *)

\* rotate90 and crop commits recorded in one bitmap's history
MaxCommits == 2

----------------------------------------------------------------------------
(* Exact rationals for the float arithmetic of the hook *)

RECURSIVE Gcd(_, _)
Gcd(a, b) == IF b = 0 THEN a ELSE Gcd(b, a % b)

Abs(i) == IF i < 0 THEN -i ELSE i
Min(a, b) == IF a < b THEN a ELSE b
Max(a, b) == IF a > b THEN a ELSE b

\* the rational n/d, d > 0, in lowest terms
Rat(n, d) == LET g == Gcd(Abs(n), d) IN [n |-> n \div g, d |-> d \div g]
RInt(i) == [n |-> i, d |-> 1]
RMul(p, q) == Rat(p.n * q.n, p.d * q.d)
RAdd(p, q) == Rat(p.n * q.d + q.n * p.d, p.d * q.d)
RLess(p, q) == p.n * q.d < q.n * p.d
RLeq(p, q) == p.n * q.d <= q.n * p.d
\* Math.round: the nearest integer, halves towards +infinity
Round(q) == (2 * q.n + q.d) \div (2 * q.d)

----------------------------------------------------------------------------
(* Inputs of the model: the URLs the component is given, the size each     *)
(* decodes to, the container sizes the layout produces, the pointer         *)
(* offsets (clientX - bounds.left, clientY - bounds.top) of mouse events,   *)
(* and the values the sliders deliver.                                      *)

Urls == {[url |-> "A"], [url |-> "B"]}
NaturalSize(u) == IF u.url = "A" THEN [width |-> 100, height |-> 50]
                  ELSE [width |-> 100, height |-> 100]
DisplaySizes == {[w |-> 100, h |-> 100]}
Pt(x, y) == [x |-> x, y |-> y]
Points == {Pt(10, 10), Pt(2, 2), Pt(120, -5)}
SliderInputs == {[key |-> "brightness", v |-> 50], [key |-> "brightness", v |-> 0]}

----------------------------------------------------------------------------
(* ImageEnhancementControls *)

DEFAULT_ENHANCEMENT_VALUES ==
    [brightness |-> 0, contrast |-> 0, saturation |-> 100,
     sharpness |-> 0, noiseReduction |-> 0, rotation |-> 0]

\* mutant of set: the other fields are not copied from the current values
set_DropsOthers(vals, key, v) == [DEFAULT_ENHANCEMENT_VALUES EXCEPT ![key] = v]

\* set(key)(v): onChange({ ...values, [key]: v })
set(vals, key, v) == [vals EXCEPT ![key] = v]

----------------------------------------------------------------------------
(* imageProcessing *)

\* mutant of upscaleSteps: one pass, straight to the target size
upscaleSteps_OnePass(w, h) ==
    [step1 |-> [width |-> w * 2, height |-> h * 2],
     step2 |-> [width |-> w * 2, height |-> h * 2]]

\* upscaleImage: the sizes of the two canvases the image is drawn into, step1
\* at Math.round(1.5 x) and step2, which is returned, at 2 x the natural size
upscaleSteps(w, h) ==
    [step1 |-> [width |-> Round(Rat(3 * w, 2)), height |-> Round(Rat(3 * h, 2))],
     step2 |-> [width |-> w * 2, height |-> h * 2]]

\* upscaleImage: the decoded image drawn at twice its natural size
upscaleImage(u) ==
    LET target == upscaleSteps(NaturalSize(u).width, NaturalSize(u).height).step2
    IN  [width |-> target.width, height |-> target.height,
         pixels |-> <<[op |-> "upscale", url |-> u.url]>>]

\* rotate90: a new canvas with the dimensions swapped
rotate90(canvas, clockwise) ==
    [width |-> canvas.height, height |-> canvas.width,
     pixels |-> Append(canvas.pixels, [op |-> "rotate90", clockwise |-> clockwise])]

\* applyAdjustments draws the source into a canvas of its own and returns
\* that canvas: the result is determined by the source and the options.
applyAdjustments(sourceCanvas, opts) == [source |-> sourceCanvas, opts |-> opts]

----------------------------------------------------------------------------
(* useCropSelection *)

nativeWidth == IF baseCanvasRef = NULL THEN 1 ELSE baseCanvasRef.width
nativeHeight == IF baseCanvasRef = NULL THEN 1 ELSE baseCanvasRef.height

\* scaleX = imageNaturalWidth / (canvasDisplayWidth || 1)
scaleX == Rat(nativeWidth, IF displaySize.w = 0 THEN 1 ELSE displaySize.w)
scaleY == Rat(nativeHeight, IF displaySize.h = 0 THEN 1 ELSE displaySize.h)

\* mutant of getRelativePos: the offset is not clamped
getRelativePos_Unclamped(p) == Pt(p.x, p.y)

\* getRelativePos: the offset inside the element, clamped to the display size
getRelativePos(p) ==
    Pt(Max(0, Min(displaySize.w, p.x)), Max(0, Min(displaySize.h, p.y)))

\* the phase of the selection: Inert, Active with no rect, Dragging, or
\* Active with the rect of a finished drag
Phase ==
    IF isDragging THEN "Dragging"
    ELSE IF ~isActive THEN "Inert"
    ELSE IF rect = NULL THEN "Active" ELSE "ActiveFrozen"

\* the record of a step: the operation, its input (for a pointer event, the
\* pointer offset if the handler got as far as reading it) and its result;
\* `from` is the selection phase a hook operation was called in
Call(op, arg, ret) == [op |-> op, arg |-> arg, ret |-> ret, from |-> "-"]
CallFrom(op, arg, ret) == [op |-> op, arg |-> arg, ret |-> ret, from |-> Phase]

\* the controls, the canvas and the pointer bindings are rendered only when
\* showEnhanced holds (isLoading and error are false whenever the app passes
\* a non-null enhancedUrl)
showEnhanced == enhancedUrl # NULL /\ ~isProcessingCanvas

\* handleMouseDown: the zero-size rect at the anchor, in native coordinates
anchorRect(pos, sx, sy) ==
    [x |-> RMul(RInt(pos.x), sx), y |-> RMul(RInt(pos.y), sy),
     w |-> RInt(0), h |-> RInt(0)]

\* mutant of dragRect: the signed difference instead of min and abs
dragRect_Signed(start, pos, sx, sy) ==
    [x |-> RMul(RInt(start.x), sx),
     y |-> RMul(RInt(start.y), sy),
     w |-> RMul(RInt(pos.x - start.x), sx),
     h |-> RMul(RInt(pos.y - start.y), sy)]

\* handleMouseMove: the rect spanned by the anchor and the current position
dragRect(start, pos, sx, sy) ==
    [x |-> RMul(RInt(Min(start.x, pos.x)), sx),
     y |-> RMul(RInt(Min(start.y, pos.y)), sy),
     w |-> RMul(RInt(Abs(pos.x - start.x)), sx),
     h |-> RMul(RInt(Abs(pos.y - start.y)), sy)]

\* mutant of confirmRejects: the height is not checked
confirmRejects_NoHeight(r) == r = NULL \/ RLess(r.w, RInt(4))

\* mutant of confirmRejects: the comparison is <= instead of <
confirmRejects_Inclusive(r) == r = NULL \/ RLeq(r.w, RInt(4)) \/ RLeq(r.h, RInt(4))

\* confirmCrop: if (!rect || rect.w < 4 || rect.h < 4) return null
confirmRejects(r) == r = NULL \/ RLess(r.w, RInt(4)) \/ RLess(r.h, RInt(4))

\* the ref object is handed to the consumer of the hook; React binds it when
\* an element carrying it is mounted.  (ImageComparison binds no element to
\* it, so in the application this step never happens.)
AttachOverlay ==
    /\ overlayRef = NULL
    /\ overlayRef' = [el |-> "div"]
    /\ lastCall' = Call("attachOverlay", NULL, NULL)
    /\ UNCHANGED <<isActive, rect, isDragging, startRef>>
    /\ UNCHANGED sessionVars
    /\ UNCHANGED outsideSession

\* handleMouseDown: if (!isActive || !overlayRef.current) return
downIgnored == ~isActive \/ overlayRef = NULL

\* mutant of moveIgnored: isDragging is not checked
moveIgnored_NoDragCheck == startRef = NULL \/ overlayRef = NULL

\* handleMouseMove: if (!isDragging || !startRef.current || !overlayRef.current) return
moveIgnored == ~isDragging \/ startRef = NULL \/ overlayRef = NULL

handleMouseDown(p) ==
    /\ showEnhanced
    /\ IF downIgnored
       THEN /\ lastCall' = Call("handleMouseDown", NULL, NULL)
            /\ UNCHANGED <<rect, isDragging, startRef>>
       ELSE /\ lastCall' = Call("handleMouseDown", p, NULL)
            /\ startRef' = getRelativePos(p)
            /\ rect' = anchorRect(getRelativePos(p), scaleX, scaleY)
            /\ isDragging' = TRUE
    /\ UNCHANGED <<isActive, overlayRef>>
    /\ UNCHANGED sessionVars
    /\ UNCHANGED outsideSession

handleMouseMove(p) ==
    /\ showEnhanced
    /\ IF moveIgnored
       THEN /\ lastCall' = Call("handleMouseMove", NULL, NULL)
            /\ UNCHANGED rect
       ELSE /\ lastCall' = Call("handleMouseMove", p, NULL)
            /\ rect' = dragRect(startRef, getRelativePos(p), scaleX, scaleY)
    /\ UNCHANGED <<isActive, isDragging, startRef, overlayRef>>
    /\ UNCHANGED sessionVars
    /\ UNCHANGED outsideSession

handleMouseUp ==
    /\ showEnhanced
    /\ lastCall' = CallFrom("handleMouseUp", NULL, NULL)
    /\ isDragging' = FALSE
    /\ UNCHANGED <<isActive, rect, startRef, overlayRef>>
    /\ UNCHANGED sessionVars
    /\ UNCHANGED outsideSession

\* mutant of activateCropState: the old rect is kept
activateCropState_KeepsRect ==
    /\ isActive' = TRUE
    /\ UNCHANGED <<rect, isDragging, startRef>>

\* the state activateCrop leaves the selection in
activateCropState ==
    /\ isActive' = TRUE
    /\ rect' = NULL
    /\ UNCHANGED <<isDragging, startRef>>

activateCrop ==
    /\ showEnhanced
    /\ lastCall' = CallFrom("activateCrop", NULL, NULL)
    /\ activateCropState
    /\ UNCHANGED overlayRef
    /\ UNCHANGED sessionVars
    /\ UNCHANGED outsideSession

\* mutant of cancelCropState: a drag in progress is not ended
cancelCropState_KeepsDrag ==
    /\ isActive' = FALSE
    /\ rect' = NULL
    /\ UNCHANGED <<isDragging, startRef>>

\* the state cancelCrop leaves the selection in
cancelCropState ==
    /\ isActive' = FALSE
    /\ rect' = NULL
    /\ isDragging' = FALSE
    /\ startRef' = NULL

cancelCrop ==
    /\ showEnhanced
    /\ lastCall' = CallFrom("cancelCrop", NULL, NULL)
    /\ cancelCropState
    /\ UNCHANGED overlayRef
    /\ UNCHANGED sessionVars
    /\ UNCHANGED outsideSession

\* the state an accepted confirmCrop leaves the selection in
confirmCropState ==
    /\ isActive' = FALSE
    /\ isDragging' = FALSE
    /\ startRef' = NULL
    /\ UNCHANGED rect

----------------------------------------------------------------------------
(* ImageComparison *)

\* the options the render effect passes to applyAdjustments
renderOpts(vals, crop) ==
    [brightness |-> vals.brightness, contrast |-> vals.contrast,
     saturation |-> vals.saturation, sharpness |-> vals.sharpness,
     noiseReduction |-> vals.noiseReduction, rotation |-> vals.rotation,
     cropRect |-> crop]

\* the render effect, run after a render in which values, appliedCrop or the
\* base canvas changed: it draws applyAdjustments(base, ...) into the output
\* canvas and measures the container
renderEffect(base, vals, crop) ==
    IF base = NULL
    THEN UNCHANGED <<outputCanvasRef, displaySize>>
    ELSE /\ outputCanvasRef' = applyAdjustments(base, renderOpts(vals, crop))
         /\ displaySize' \in DisplaySizes

\* handleCropConfirm: the canvas that replaces the base
croppedCanvas(base, r) ==
    [width |-> Round(r.w), height |-> Round(r.h),
     pixels |-> Append(base.pixels,
                       [op |-> "crop", x |-> Round(r.x), y |-> Round(r.y),
                        w |-> Round(r.w), h |-> Round(r.h)])]

\* mutant of onChange: the adjustment is drawn into the base canvas
onChange_WritesBase(in) ==
    /\ showEnhanced
    /\ baseCanvasRef # NULL
    /\ lastCall' = Call("onChange", in, NULL)
    /\ values' = set(values, in.key, in.v)
    /\ baseCanvasRef' = [baseCanvasRef EXCEPT
                            !.pixels = <<[op |-> "adjusted", url |-> "-"]>>]
    /\ renderEffect(baseCanvasRef', values', appliedCrop)
    /\ UNCHANGED <<appliedCrop, isProcessingCanvas, enhancedUrl, pending, used>>
    /\ UNCHANGED hookVars
    /\ UNCHANGED outsideSession

\* onChange={setValues}, called by a slider through set(key)
onChange(in) ==
    /\ showEnhanced
    /\ lastCall' = Call("onChange", in, NULL)
    /\ values' = set(values, in.key, in.v)
    /\ renderEffect(baseCanvasRef, values', appliedCrop)
    /\ UNCHANGED <<baseCanvasRef, appliedCrop, isProcessingCanvas, enhancedUrl,
                   pending, used>>
    /\ UNCHANGED hookVars
    /\ UNCHANGED outsideSession

\* mutant of handleReset: the committed crops and rotations are undone
handleReset_UndoesCommits ==
    /\ showEnhanced
    /\ lastCall' = CallFrom("handleReset", NULL, NULL)
    /\ values' = DEFAULT_ENHANCEMENT_VALUES
    /\ appliedCrop' = NULL
    /\ cancelCropState
    /\ baseCanvasRef' = IF baseCanvasRef = NULL THEN NULL ELSE upscaleImage(enhancedUrl)
    /\ renderEffect(baseCanvasRef', values', appliedCrop')
    /\ UNCHANGED <<isProcessingCanvas, enhancedUrl, pending, used>>
    /\ UNCHANGED overlayRef
    /\ UNCHANGED outsideSession

handleReset ==
    /\ showEnhanced
    /\ lastCall' = CallFrom("handleReset", NULL, NULL)
    /\ values' = DEFAULT_ENHANCEMENT_VALUES
    /\ appliedCrop' = NULL
    /\ cancelCropState
    /\ renderEffect(baseCanvasRef, values', appliedCrop')
    /\ UNCHANGED <<baseCanvasRef, isProcessingCanvas, enhancedUrl, pending, used>>
    /\ UNCHANGED overlayRef
    /\ UNCHANGED outsideSession

handleRotate90(clockwise) ==
    /\ showEnhanced
    /\ lastCall' = Call("handleRotate90", [clockwise |-> clockwise], NULL)
    /\ IF baseCanvasRef = NULL
       THEN UNCHANGED sessionVars
       ELSE /\ Len(baseCanvasRef.pixels) <= MaxCommits
            /\ baseCanvasRef' = rotate90(baseCanvasRef, clockwise)
            /\ appliedCrop' = NULL
            /\ values' = values
            /\ renderEffect(baseCanvasRef', values', appliedCrop')
            /\ UNCHANGED <<isProcessingCanvas, enhancedUrl, pending, used>>
    /\ UNCHANGED hookVars
    /\ UNCHANGED outsideSession

\* handleCropConfirm, with the call of the hook's confirmCrop in it
handleCropConfirm ==
    /\ showEnhanced
    /\ IF confirmRejects(rect)
       THEN /\ lastCall' = CallFrom("handleCropConfirm", NULL, NULL)
            /\ UNCHANGED hookVars
            /\ UNCHANGED sessionVars
       ELSE /\ lastCall' = CallFrom("handleCropConfirm", NULL, rect)
            /\ confirmCropState
            /\ UNCHANGED overlayRef
            /\ IF baseCanvasRef = NULL
               THEN UNCHANGED sessionVars
               ELSE /\ Len(baseCanvasRef.pixels) <= MaxCommits
                    /\ baseCanvasRef' = croppedCanvas(baseCanvasRef, rect)
                    /\ appliedCrop' = NULL
                    /\ values' = values
                    /\ renderEffect(baseCanvasRef', values', appliedCrop')
                    /\ UNCHANGED <<isProcessingCanvas, enhancedUrl, pending, used>>
    /\ UNCHANGED outsideSession

\* handleDownload: the output canvas is encoded and offered for download
handleDownload ==
    /\ showEnhanced
    /\ lastCall' = Call("handleDownload", NULL, outputCanvasRef)
    /\ UNCHANGED hookVars
    /\ UNCHANGED sessionVars
    /\ UNCHANGED outsideSession

\* The load effect, run when the enhancedUrl prop changes: the cleanup of the
\* previous run sets its `cancelled`, then the new run starts.  An enhanced
\* URL is a blob URL made for one enhancement run (createBlobUrlFromBytes),
\* so the component is never given the same URL twice.
loadEffect(u) ==
    /\ u # enhancedUrl
    /\ lastCall' = Call("loadEffect", u, NULL)
    /\ enhancedUrl' = u
    /\ IF u = NULL
       THEN /\ baseCanvasRef' = NULL
            /\ appliedCrop' = NULL
            /\ values' = DEFAULT_ENHANCEMENT_VALUES
            /\ pending' = {[q EXCEPT !.cancelled = TRUE] : q \in pending}
            /\ UNCHANGED <<isProcessingCanvas, used>>
       ELSE /\ u \notin used
            /\ used' = used \cup {u}
            /\ isProcessingCanvas' = TRUE
            /\ pending' = {[q EXCEPT !.cancelled = TRUE] : q \in pending}
                            \cup {[url |-> u, cancelled |-> FALSE]}
            /\ UNCHANGED <<baseCanvasRef, appliedCrop, values>>
    \* the canvas element is not rendered while showEnhanced is false
    /\ outputCanvasRef' = NULL
    /\ UNCHANGED displaySize
    /\ UNCHANGED hookVars
    /\ UNCHANGED outsideSession

\* mutant of isCancelled: the flag is never consulted
isCancelled_Ignored(q) == FALSE

\* if (cancelled) return: the run's cleanup ran before its promise settled
isCancelled(q) == q.cancelled

\* upscaleImage(enhancedUrl).then(...)
decodeResolved(q) ==
    /\ q \in pending
    /\ pending' = pending \ {q}
    /\ lastCall' = Call("decodeResolved", q, NULL)
    /\ IF isCancelled(q)
       THEN UNCHANGED <<baseCanvasRef, outputCanvasRef, values, appliedCrop,
                        displaySize, isProcessingCanvas>>
       ELSE /\ baseCanvasRef' = upscaleImage(q.url)
            /\ appliedCrop' = NULL
            /\ values' = DEFAULT_ENHANCEMENT_VALUES
            /\ isProcessingCanvas' = FALSE
            /\ renderEffect(baseCanvasRef', values', appliedCrop')
    /\ UNCHANGED <<enhancedUrl, used>>
    /\ UNCHANGED hookVars
    /\ UNCHANGED outsideSession

\* mutant of decodeRejected: the failure clears the session's bitmap state
decodeRejected_ClearsBase(q) ==
    /\ q \in pending
    /\ pending' = pending \ {q}
    /\ lastCall' = Call("decodeRejected", q, NULL)
    /\ isProcessingCanvas' = IF isCancelled(q) THEN isProcessingCanvas ELSE FALSE
    /\ baseCanvasRef' = NULL
    /\ values' = DEFAULT_ENHANCEMENT_VALUES
    /\ appliedCrop' = NULL
    /\ UNCHANGED <<outputCanvasRef, displaySize, enhancedUrl, used>>
    /\ UNCHANGED hookVars
    /\ UNCHANGED outsideSession

\* upscaleImage(enhancedUrl).catch(...): loadImage rejected
decodeRejected(q) ==
    /\ q \in pending
    /\ pending' = pending \ {q}
    /\ lastCall' = Call("decodeRejected", q, NULL)
    /\ isProcessingCanvas' = IF isCancelled(q) THEN isProcessingCanvas ELSE FALSE
    /\ UNCHANGED <<baseCanvasRef, outputCanvasRef, values, appliedCrop, displaySize,
                   enhancedUrl, used>>
    /\ UNCHANGED hookVars
    /\ UNCHANGED outsideSession

----------------------------------------------------------------------------
(* imageProcessing on pixel data.  An ImageData and a canvas are              *)
(* [width, height, data, obj], data the pixels in row-major order, a pixel    *)
(* [r, g, b, a] with channels in 0..255.  obj numbers the objects made on     *)
(* the way from a source object (obj 0): a function that creates its result   *)
(* returns obj + 1, one that returns its argument returns the same obj.       *)

RNeg(p) == [n |-> -p.n, d |-> p.d]
RSub(p, q) == RAdd(p, RNeg(q))
\* p / q for q # 0
RDiv(p, q) == IF q.n > 0 THEN Rat(p.n * q.d, p.d * q.n)
              ELSE Rat(-(p.n * q.d), p.d * (-q.n))
RMax(p, q) == IF RLess(p, q) THEN q ELSE p
RMin(p, q) == IF RLess(q, p) THEN q ELSE p

RECURSIVE RSum(_)
RSum(s) == IF s = <<>> THEN RInt(0) ELSE RAdd(Head(s), RSum(Tail(s)))

\* the element of a one-element set: {f(x) : x \in {e}} computes e once
TheOne(S) == CHOOSE x \in S : TRUE

\* clamp: Math.max(0, Math.min(255, Math.round(v)))
clamp(v) == Max(0, Min(255, Round(v)))

TRANSPARENT == [r |-> 0, g |-> 0, b |-> 0, a |-> 0]

\* the pixel at (x, y), 0-based
PixelAt(img, x, y) == img.data[y * img.width + x + 1]

\* the coordinates <<x, y>> of an image of the given size
Pixels(w, h) == (0..(w - 1)) \X (0..(h - 1))

\* a new image, made from the object `from`, of the given size, whose pixel
\* at (x, y) is px[<<x, y>>]
ImageOf(from, w, h, px) ==
    [width |-> w, height |-> h, obj |-> from.obj + 1,
     data |-> [i \in 1..(w * h) |-> px[<<(i - 1) % w, (i - 1) \div w>>]]]

\* the colour channel values that occur in an image
Channels(imageData) ==
    UNION { {imageData.data[i].r, imageData.data[i].g, imageData.data[i].b} :
            i \in 1..Len(imageData.data) }

\* the loops that write output[i], output[i+1], output[i+2] from a channel
\* function f and copy output[i+3] = data[i+3]
MapChannels(imageData, f) ==
    [imageData EXCEPT !.obj = @ + 1, !.data =
        [i \in 1..Len(imageData.data) |->
            [r |-> f[imageData.data[i].r], g |-> f[imageData.data[i].g],
             b |-> f[imageData.data[i].b], a |-> imageData.data[i].a]]]

\* the index into data of a byte offset, data being kept pixel by pixel
inBuffer(imageData, idx) == idx \in 0..(4 * Len(imageData.data) - 4)

\* the sample taken without limiting its coordinates to the image
sampleIdx_Unclamped(width, height, x, y, kx, ky) ==
    ((y + ky) * width + (x + kx)) * 4
\* idx: the offset of the sample the kernel entry (kx, ky) takes for (x, y)
sampleIdx(width, height, x, y, kx, ky) ==
    LET px == Min(width - 1, Max(0, x + kx))
        py == Min(height - 1, Max(0, y + ky))
    IN  (py * width + px) * 4

\* applyConvolution: the 3x3 kernel at every pixel, alpha copied.  A read
\* outside data gives undefined, the sum is then NaN and the byte stored 0.
applyConvolution(imageData, kernel, divisor) ==
    LET width == imageData.width
        height == imageData.height
        idx(x, y, k) == sampleIdx(width, height, x, y,
                                  ((k - 1) % 3) - 1, ((k - 1) \div 3) - 1)
        defined(x, y) == \A k \in 1..9 : inBuffer(imageData, idx(x, y, k))
        sample(x, y, k) == imageData.data[idx(x, y, k) \div 4 + 1]
        r(x, y) == RSum([k \in 1..9 |-> RMul(RInt(sample(x, y, k).r), kernel[k])])
        g(x, y) == RSum([k \in 1..9 |-> RMul(RInt(sample(x, y, k).g), kernel[k])])
        b(x, y) == RSum([k \in 1..9 |-> RMul(RInt(sample(x, y, k).b), kernel[k])])
        out(x, y) ==
            IF defined(x, y)
            THEN [r |-> clamp(RDiv(r(x, y), divisor)),
                  g |-> clamp(RDiv(g(x, y), divisor)),
                  b |-> clamp(RDiv(b(x, y), divisor)),
                  a |-> PixelAt(imageData, x, y).a]
            ELSE [r |-> 0, g |-> 0, b |-> 0, a |-> PixelAt(imageData, x, y).a]
    IN  ImageOf(imageData, width, height,
                [p \in Pixels(width, height) |-> out(p[1], p[2])])

\* applySharpen: the unsharp mask kernel, centre 1 + 8t, edges -t
sharpenKernel(intensity) ==
    LET t == Rat(intensity, 100)
        center == RAdd(RInt(1), RMul(RInt(8), t))
        edge == RNeg(t)
    IN  <<edge, edge, edge, edge, center, edge, edge, edge, edge>>

applySharpen(imageData, intensity) ==
    IF intensity <= 0 THEN imageData
    ELSE applyConvolution(imageData, sharpenKernel(intensity), RInt(1))

blurKernel == [k \in 1..9 |-> RInt(1)]

RECURSIVE blurPasses(_, _)
blurPasses(imageData, passes) ==
    IF passes <= 0 THEN imageData
    ELSE TheOne({blurPasses(result, passes - 1) :
                   result \in {applyConvolution(imageData, blurKernel, RInt(9))}})

\* the number of passes taken with Math.floor
applyNoiseReduction_Floor(imageData, intensity) ==
    IF intensity <= 0 THEN imageData
    ELSE blurPasses(imageData, (intensity * 2) \div 100)
applyNoiseReduction(imageData, intensity) ==
    IF intensity <= 0 THEN imageData
    ELSE blurPasses(imageData, Round(RMul(Rat(intensity, 100), RInt(2))))

\* the offset taken over the whole channel range
applyBrightness_FullRange(imageData, brightness) ==
    IF brightness = 0 THEN imageData
    ELSE LET offset == RMul(Rat(brightness, 100), RInt(255))
             f(c) == clamp(RAdd(RInt(c), offset))
         IN  MapChannels(imageData, [c \in Channels(imageData) |-> f(c)])
applyBrightness(imageData, brightness) ==
    IF brightness = 0 THEN imageData
    ELSE LET offset == RMul(Rat(brightness, 100), RInt(128))
             f(c) == clamp(RAdd(RInt(c), offset))
         IN  MapChannels(imageData, [c \in Channels(imageData) |-> f(c)])

\* the factor applied to the channel itself, not to its distance from 128
applyContrast_NoPivot(imageData, contrast) ==
    IF contrast = 0 THEN imageData
    ELSE LET factor == Rat(259 * (contrast + 255), 255 * (259 - contrast))
             f(c) == clamp(RMul(factor, RInt(c)))
         IN  MapChannels(imageData, [c \in Channels(imageData) |-> f(c)])
applyContrast(imageData, contrast) ==
    IF contrast = 0 THEN imageData
    ELSE LET factor == Rat(259 * (contrast + 255), 255 * (259 - contrast))
             f(c) == clamp(RAdd(RMul(factor, RInt(c - 128)), RInt(128)))
         IN  MapChannels(imageData, [c \in Channels(imageData) |-> f(c)])

\* rgbToHsl: <<h, s, l>>, all in [0, 1]
rgbToHsl(r0, g0, b0) ==
    LET r == Rat(r0, 255)
        g == Rat(g0, 255)
        b == Rat(b0, 255)
        max == RMax(r, RMax(g, b))
        min == RMin(r, RMin(g, b))
        l == RDiv(RAdd(max, min), RInt(2))
        d == RSub(max, min)
        s == IF RLess(Rat(1, 2), l)
             THEN RDiv(d, RSub(RSub(RInt(2), max), min))
             ELSE RDiv(d, RAdd(max, min))
        h == IF max = r
             THEN RDiv(RAdd(RDiv(RSub(g, b), d),
                            IF RLess(g, b) THEN RInt(6) ELSE RInt(0)), RInt(6))
             ELSE IF max = g
             THEN RDiv(RAdd(RDiv(RSub(b, r), d), RInt(2)), RInt(6))
             ELSE RDiv(RAdd(RDiv(RSub(r, g), d), RInt(4)), RInt(6))
    IN  IF max = min THEN <<RInt(0), RInt(0), l>> ELSE <<h, s, l>>

hue2rgb(p, q, t0) ==
    LET t1 == IF RLess(t0, RInt(0)) THEN RAdd(t0, RInt(1)) ELSE t0
        t == IF RLess(RInt(1), t1) THEN RSub(t1, RInt(1)) ELSE t1
    IN  IF RLess(t, Rat(1, 6)) THEN RAdd(p, RMul(RMul(RSub(q, p), RInt(6)), t))
        ELSE IF RLess(t, Rat(1, 2)) THEN q
        ELSE IF RLess(t, Rat(2, 3))
             THEN RAdd(p, RMul(RMul(RSub(q, p), RSub(Rat(2, 3), t)), RInt(6)))
        ELSE p

\* hslToRgb: <<r, g, b>> in 0..255
hslToRgb(h, s, l) ==
    IF s = RInt(0)
    THEN LET v == Round(RMul(l, RInt(255))) IN <<v, v, v>>
    ELSE LET q == IF RLess(l, Rat(1, 2)) THEN RMul(l, RAdd(RInt(1), s))
                  ELSE RSub(RAdd(l, s), RMul(l, s))
             p == RSub(RMul(RInt(2), l), q)
         IN  <<Round(RMul(hue2rgb(p, q, RAdd(h, Rat(1, 3))), RInt(255))),
               Round(RMul(hue2rgb(p, q, h), RInt(255))),
               Round(RMul(hue2rgb(p, q, RSub(h, Rat(1, 3))), RInt(255)))>>

\* the numeric path of applySaturation: every pixel through HSL and back
saturate(imageData, saturation) ==
    LET factor == Rat(saturation, 100)
        out(px) ==
            LET hsl == rgbToHsl(px.r, px.g, px.b)
                newS == RMin(RInt(1), RMax(RInt(0), RMul(hsl[2], factor)))
                rgb == hslToRgb(hsl[1], newS, hsl[3])
            IN  [r |-> rgb[1], g |-> rgb[2], b |-> rgb[3], a |-> px.a]
    IN  [imageData EXCEPT !.obj = @ + 1, !.data =
            [i \in 1..Len(imageData.data) |-> out(imageData.data[i])]]

\* mutant of applySaturation: no short-circuit at the neutral value
applySaturation_NoShortCircuit(imageData, saturation) ==
    saturate(imageData, saturation)

\* 0 taken for a neutral value as well
applySaturation_ZeroNeutral(imageData, saturation) ==
    IF saturation \in {0, 100} THEN imageData ELSE saturate(imageData, saturation)
applySaturation(imageData, saturation) ==
    IF saturation = 100 THEN imageData ELSE saturate(imageData, saturation)


\* mutant of drawCropped: the last column and row of the source are not drawn
drawCropped_Exclusive(canvas, sx, sy, sw, sh) ==
    LET px(x, y) ==
            IF /\ sx + x >= 0 /\ sx + x < canvas.width - 1
               /\ sy + y >= 0 /\ sy + y < canvas.height - 1
            THEN PixelAt(canvas, sx + x, sy + y)
            ELSE TRANSPARENT
    IN  ImageOf(canvas, sw, sh, [p \in Pixels(sw, sh) |-> px(p[1], p[2])])

\* drawImage(canvas, sx, sy, sw, sh, 0, 0, sw, sh) into a new canvas of size
\* sw x sh: the part of the source rectangle outside the canvas stays
\* transparent
drawCropped(canvas, sx, sy, sw, sh) ==
    LET px(x, y) ==
            IF /\ sx + x >= 0 /\ sx + x < canvas.width
               /\ sy + y >= 0 /\ sy + y < canvas.height
            THEN PixelAt(canvas, sx + x, sy + y)
            ELSE TRANSPARENT
    IN  ImageOf(canvas, sw, sh, [p \in Pixels(sw, sh) |-> px(p[1], p[2])])

\* the crop step of applyAdjustments
cropStep(workCanvas0, cropRect) ==
    IF cropRect # NULL /\ cropRect.w.n > 0 /\ cropRect.h.n > 0
    THEN drawCropped(workCanvas0, Round(cropRect.x), Round(cropRect.y),
                     Round(cropRect.w), Round(cropRect.h))
    ELSE workCanvas0

\* Math.sin and Math.cos of an angle given in degrees, to 4 decimals, for
\* the angles the model uses
sinDeg(deg) ==
    CASE deg = 0 -> RInt(0)
      [] deg = 45 -> Rat(7071, 10000)
      [] deg = -45 -> Rat(-7071, 10000)
cosDeg(deg) ==
    CASE deg = 0 -> RInt(1)
      [] deg = 45 -> Rat(7071, 10000)
      [] deg = -45 -> Rat(7071, 10000)

RAbs(p) == [n |-> Abs(p.n), d |-> p.d]
Floor(p) == p.n \div p.d

\* the free rotation step of applyAdjustments: a canvas of the bounding size,
\* the source drawn rotated about its centre.  Each pixel takes the source
\* pixel its centre falls into (the browser's smoothing is not modelled).
rotationStep(workCanvas0, rotation) ==
    IF rotation = 0 THEN workCanvas0
    ELSE LET sin == RAbs(sinDeg(rotation))
             cos == RAbs(cosDeg(rotation))
             w == workCanvas0.width
             h == workCanvas0.height
             newW == Round(RAdd(RMul(RInt(w), cos), RMul(RInt(h), sin)))
             newH == Round(RAdd(RMul(RInt(w), sin), RMul(RInt(h), cos)))
             px(x, y) ==
                 LET cx == RSub(Rat(2 * x + 1, 2), Rat(newW, 2))
                     cy == RSub(Rat(2 * y + 1, 2), Rat(newH, 2))
                     u == RAdd(RMul(cx, cosDeg(rotation)), RMul(cy, sinDeg(rotation)))
                     v == RSub(RMul(cy, cosDeg(rotation)), RMul(cx, sinDeg(rotation)))
                     sx == Floor(RAdd(u, Rat(w, 2)))
                     sy == Floor(RAdd(v, Rat(h, 2)))
                 IN  IF sx >= 0 /\ sx < w /\ sy >= 0 /\ sy < h
                     THEN PixelAt(workCanvas0, sx, sy)
                     ELSE TRANSPARENT
         IN  ImageOf(workCanvas0, newW, newH,
                     [p \in Pixels(newW, newH) |-> px(p[1], p[2])])

\* one stage of applyAdjustments: the result replaces the work image, and a
\* stage that returned a new object is recorded
stage(s, name, result) ==
    [img |-> result,
     stages |-> IF result = s.img THEN s.stages ELSE Append(s.stages, name)]

applyFilter(name, imageData, v) ==
    CASE name = "applyBrightness" -> applyBrightness(imageData, v)
      [] name = "applyContrast" -> applyContrast(imageData, v)
      [] name = "applySaturation" -> applySaturation(imageData, v)
      [] name = "applySharpen" -> applySharpen(imageData, v)
      [] name = "applyNoiseReduction" -> applyNoiseReduction(imageData, v)

\* the value applyAdjustments passes to each filter
filterValue(name, opts) ==
    CASE name = "applyBrightness" -> opts.brightness
      [] name = "applyContrast" -> opts.contrast
      [] name = "applySaturation" -> opts.saturation
      [] name = "applySharpen" -> opts.sharpness
      [] name = "applyNoiseReduction" -> opts.noiseReduction

\* mutant of filterOrder: sharpening runs before the other filters
filterOrder_SharpenFirst ==
    <<"applySharpen", "applyNoiseReduction", "applyBrightness", "applyContrast",
      "applySaturation">>

\* the order in which applyAdjustments calls the filters
filterOrder ==
    <<"applyNoiseReduction", "applyBrightness", "applyContrast", "applySaturation",
      "applySharpen">>

RECURSIVE applyFilters(_, _, _)
applyFilters(s, order, opts) ==
    IF order = <<>> THEN s
    ELSE TheOne({applyFilters(next, Tail(order), opts) :
                   next \in {stage(s, Head(order),
                                   applyFilter(Head(order), s.img,
                                               filterValue(Head(order), opts)))}})

\* a canvas without pixels
zeroSized(canvas) == canvas.width = 0 \/ canvas.height = 0

\* the exception a canvas call throws, with the size of the work canvas it
\* was thrown for; applyAdjustments does not catch it
DOMException(name, canvas) ==
    [threw |-> name, width |-> canvas.width, height |-> canvas.height]
threw(out) == "threw" \in DOMAIN out

\* applyAdjustments from getImageData on: the filters run on the ImageData of
\* the work canvas, putImageData writes the result into the work canvas, which
\* is returned.  getImageData throws for a source width or height of 0.
filterStage(geometry, opts) ==
    IF zeroSized(geometry.img)
    THEN [canvas |-> DOMException("IndexSizeError", geometry.img),
          stages |-> geometry.stages]
    ELSE
    TheOne({[canvas |-> [geometry.img EXCEPT !.data = filtered.img.data],
             stages |-> filtered.stages] :
            filtered \in {applyFilters([geometry EXCEPT !.img.obj = @ + 1],
                                       filterOrder, opts)}})

\* applyAdjustments from the rotation step on.  drawImage throws for a source
\* canvas of width or height 0.
rotationStage(cropped, opts) ==
    IF opts.rotation # 0 /\ zeroSized(cropped.img)
    THEN [canvas |-> DOMException("InvalidStateError", cropped.img),
          stages |-> cropped.stages]
    ELSE
    TheOne({filterStage(geometry, opts) :
            geometry \in {stage(cropped, "rotation",
                                rotationStep(cropped.img, opts.rotation))}})

\* applyAdjustments from the crop step on
cropStage(drawn, opts) ==
    TheOne({rotationStage(cropped, opts) :
            cropped \in {stage(drawn, "crop", cropStep(drawn.img, opts.cropRect))}})

\* applyAdjustments on pixel data: the canvas it returns and the stages that
\* ran, in the order they ran.  (applyAdjustments above is the same function
\* with the pixels left uninterpreted.)
applyAdjustmentsData(sourceCanvas, opts) ==
    TheOne({cropStage(drawn, opts) :
            \* workCanvas: a new canvas with the source drawn into it
            drawn \in {[img |-> ImageOf(sourceCanvas, sourceCanvas.width,
                                       sourceCanvas.height,
                                       [p \in Pixels(sourceCanvas.width,
                                                     sourceCanvas.height) |->
                                            PixelAt(sourceCanvas, p[1], p[2])]),
                       stages |-> <<>>]}})

\* mutant of rotate90Data: the context is not translated before the rotation,
\* so the source is drawn outside the canvas
rotate90Data_NoTranslate(canvas, clockwise) ==
    ImageOf(canvas, canvas.height, canvas.width,
            [p \in Pixels(canvas.height, canvas.width) |-> TRANSPARENT])

\* rotate90 on pixel data: translate, rotate by a quarter turn, draw
rotate90Data(canvas, clockwise) ==
    LET outW == canvas.height
        outH == canvas.width
        px(x, y) == IF clockwise THEN PixelAt(canvas, y, outW - 1 - x)
                    ELSE PixelAt(canvas, outH - 1 - y, x)
    IN  ImageOf(canvas, outW, outH, [p \in Pixels(outW, outH) |-> px(p[1], p[2])])

----------------------------------------------------------------------------

SessionInit ==
    /\ isActive = FALSE
    /\ rect = NULL
    /\ isDragging = FALSE
    /\ startRef = NULL
    /\ overlayRef = NULL
    /\ baseCanvasRef = NULL
    /\ outputCanvasRef = NULL
    /\ values = DEFAULT_ENHANCEMENT_VALUES
    /\ appliedCrop = NULL
    /\ displaySize = [w |-> 0, h |-> 0]
    /\ isProcessingCanvas = FALSE
    /\ enhancedUrl = NULL
    /\ pending = {}
    /\ used = {}
    /\ lastCall = [op |-> "mount", arg |-> NULL, ret |-> NULL, from |-> "-"]

\* no processing function is under test
ImageIdle ==
    /\ workCanvas = NULL
    /\ fnCall = NULL

\* the App as it is mounted: nothing selected, no run
AppIdle ==
    /\ appState = "idle"
    /\ originalUrl = NULL
    /\ appEnhancedUrl = NULL
    /\ errorMessage = NULL
    /\ uploadProgress = NULL
    /\ enhancementMode = "standard"
    /\ imageBytesRef = NULL
    /\ fileTypeRef = "image/jpeg"
    /\ originalUrlRef = NULL
    /\ prevEnhancedUrlRef = NULL
    /\ mutation = [status |-> "idle", error |-> NULL, data |-> NULL]
    /\ run = NULL
    /\ preview = NULL
    /\ fileName = NULL
    /\ uploaderError = NULL
    /\ reads = {}

\* the canister as it is installed: no session, no image
BackendIdle ==
    /\ uploadSessions = EmptyMap
    /\ images = EmptyMap
    /\ nextImageId = 0
    /\ arrivals = EmptyMap
    /\ response = [op |-> "install", arg |-> NULL, reply |-> NULL]

Init ==
    /\ SessionInit
    /\ ImageIdle
    /\ AppIdle
    /\ BackendIdle

Next ==
    \/ AttachOverlay
    \/ \E p \in Points : handleMouseDown(p)
    \/ \E p \in Points : handleMouseMove(p)
    \/ handleMouseUp
    \/ activateCrop
    \/ cancelCrop
    \/ \E in \in SliderInputs : onChange(in)
    \/ handleReset
    \/ \E clockwise \in BOOLEAN : handleRotate90(clockwise)
    \/ handleCropConfirm
    \/ handleDownload
    \/ \E u \in Urls \cup {NULL} : loadEffect(u)
    \/ \E q \in pending : decodeResolved(q)
    \/ \E q \in pending : decodeRejected(q)

Spec == Init /\ [][Next]_vars

----------------------------------------------------------------------------
(* The processing functions applied to given bitmaps: the bitmaps, values   *)
(* and rects they are given, and one step per function.                     *)

RED == [r |-> 255, g |-> 0, b |-> 0, a |-> 255]
TEAL == [r |-> 64, g |-> 128, b |-> 200, a |-> 255]
SMOKE == [r |-> 90, g |-> 90, b |-> 60, a |-> 128]
Palette == {RED, TEAL, SMOKE}

\* the sizes <<width, height>> of the bitmaps
Sizes == {<<1, 1>>, <<2, 1>>, <<1, 3>>}

\* a 3 x 3 bitmap, with a pixel that has all its eight neighbours
Mosaic ==
    [width |-> 3, height |-> 3, obj |-> 0,
     data |-> <<RED, TEAL, SMOKE, TEAL, SMOKE, RED, SMOKE, RED, TEAL>>]

Bitmaps ==
    UNION {{[width |-> sz[1], height |-> sz[2], obj |-> 0, data |-> d] :
             d \in [1..(sz[1] * sz[2]) -> Palette]} : sz \in Sizes}
    \cup {[width |-> 2, height |-> 2, obj |-> 0, data |-> d] :
             d \in [1..4 -> {RED, TEAL}]}
    \cup {Mosaic}

FilterInputs ==
    {[name |-> "applyBrightness", v |-> 0], [name |-> "applyBrightness", v |-> 50],
     [name |-> "applyContrast", v |-> 0], [name |-> "applyContrast", v |-> 100],
     [name |-> "applySaturation", v |-> 100], [name |-> "applySaturation", v |-> 0],
     [name |-> "applySharpen", v |-> 0], [name |-> "applySharpen", v |-> 50],
     [name |-> "applySharpen", v |-> 100],
     [name |-> "applyNoiseReduction", v |-> 0], [name |-> "applyNoiseReduction", v |-> 50]}
    \cup {[name |-> "applyNoiseReduction", v |-> v] : v \in {1, 24, 25, 74, 75, 100}}
    \cup {[name |-> "applyBrightness", v |-> v] : v \in {-100, -30, 100}}
    \cup {[name |-> "applyContrast", v |-> v] : v \in {-100, 50}}

\* the rect covering the whole canvas
fullRect(canvas) == [x |-> RInt(0), y |-> RInt(0),
                     w |-> RInt(canvas.width), h |-> RInt(canvas.height)]

CropInputs(canvas) ==
    {fullRect(canvas),
     [x |-> RInt(0), y |-> RInt(0), w |-> RInt(1), h |-> RInt(1)],
     [x |-> Rat(1, 2), y |-> RInt(0), w |-> Rat(3, 2), h |-> RInt(1)]}

\* a rect of positive width below half a pixel
thinRect == [x |-> RInt(0), y |-> RInt(0), w |-> Rat(1, 4), h |-> RInt(1)]

AdjustInputs(canvas) ==
    [brightness : {0, 50}, contrast : {0, 100}, saturation : {100, 0},
     sharpness : {0, 50}, noiseReduction : {0, 50}, rotation : {0, 45},
     cropRect : {NULL, fullRect(canvas), thinRect}]

\* no function has been applied to the bitmap yet
idle == fnCall.op = "none"

\* the record of a step: the function, its argument besides the bitmap, its
\* result and, for applyAdjustments, the stages that ran
Applied(op, arg, out, stages) == [op |-> op, arg |-> arg, out |-> out, stages |-> stages]

CallFilter(in) ==
    /\ idle
    /\ fnCall' = Applied(in.name, in.v, applyFilter(in.name, workCanvas, in.v), <<>>)
    /\ UNCHANGED workCanvas
    /\ UNCHANGED outsideImage

CallApplyAdjustments(opts) ==
    /\ idle
    /\ LET res == applyAdjustmentsData(workCanvas, opts)
       IN  fnCall' = Applied("applyAdjustments", opts, res.canvas, res.stages)
    /\ UNCHANGED workCanvas
    /\ UNCHANGED outsideImage

\* the canvas handleCropConfirm makes for a confirmed rect
CallCropConfirm(r) ==
    /\ idle
    /\ fnCall' = Applied("handleCropConfirm", r,
                         drawCropped(workCanvas, Round(r.x), Round(r.y),
                                     Round(r.w), Round(r.h)), <<>>)
    /\ UNCHANGED workCanvas
    /\ UNCHANGED outsideImage

CallRotate90(clockwise) ==
    /\ idle
    /\ fnCall' = Applied("rotate90", [clockwise |-> clockwise],
                         rotate90Data(workCanvas, clockwise), <<>>)
    /\ UNCHANGED workCanvas
    /\ UNCHANGED outsideImage

CallUpscale ==
    /\ idle
    /\ fnCall' = Applied("upscaleImage", NULL,
                         upscaleSteps(workCanvas.width, workCanvas.height), <<>>)
    /\ UNCHANGED workCanvas
    /\ UNCHANGED outsideImage

ImageInit ==
    /\ SessionInit
    /\ AppIdle
    /\ BackendIdle
    /\ workCanvas \in Bitmaps
    /\ fnCall = Applied("none", NULL, NULL, <<>>)

ImageNext ==
    \/ \E in \in FilterInputs : CallFilter(in)
    \/ \E opts \in AdjustInputs(workCanvas) : CallApplyAdjustments(opts)
    \/ \E r \in CropInputs(workCanvas) : CallCropConfirm(r)
    \/ \E clockwise \in BOOLEAN : CallRotate90(clockwise)
    \/ CallUpscale

SpecImage == ImageInit /\ [][ImageNext]_vars

----------------------------------------------------------------------------
(* App, ImageUploader and useProcessImage: selecting a file, the upload    *)
(* run against the remote service and what the App keeps of its outcome.   *)
(* A text is a record [text], a thrown value a record [isError, message],  *)
(* a blob URL the record of the bytes and type it was created from.        *)
(* Continuations that follow a settled promise without waiting for another *)
(* one run in the same step as the settlement.                             *)

\* the chunk size of the client, scaled from 1_572_864 bytes to the byte
\* sequences of the model
CHUNK_SIZE == 2

ACCEPTED_TYPES == {"image/jpeg", "image/png"}

\* the files the user can pick
Files ==
    { [name |-> "empty.png", type |-> "image/png", bytes |-> << >>],
      [name |-> "dot.png", type |-> "image/png", bytes |-> <<137>>],
      [name |-> "photo.jpg", type |-> "image/jpeg",
       bytes |-> <<255, 216, 255, 224>>],
      [name |-> "anim.gif", type |-> "image/gif", bytes |-> <<71>>] }

Msg(t) == [text |-> t]
Thrown(isError, message) == [isError |-> isError, message |-> message]

\* URL.createObjectURL(file)
ObjectUrl(file) == [of |-> file.name]

\* a loop that stops where a full chunk is no longer left
splitIntoChunks_FullOnly(data, chunkSize) ==
    [k \in 1..(Len(data) \div chunkSize) |->
        SubSeq(data, (k - 1) * chunkSize + 1, k * chunkSize)]
RECURSIVE splitIntoChunks(_, _)
splitIntoChunks(data, chunkSize) ==
    IF Len(data) = 0 THEN << >>
    ELSE LET n == Min(chunkSize, Len(data))
         IN  <<SubSeq(data, 1, n)>>
             \o splitIntoChunks(SubSeq(data, n + 1, Len(data)), chunkSize)

detectMimeType(bytes) ==
    IF Len(bytes) >= 3 /\ bytes[1] = 255 /\ bytes[2] = 216 /\ bytes[3] = 255
    THEN "image/jpeg"
    ELSE IF Len(bytes) >= 8 /\ bytes[1] = 137 /\ bytes[2] = 80
            /\ bytes[3] = 78 /\ bytes[4] = 71
    THEN "image/png"
    ELSE "image/png"

createBlobUrlFromBytes(bytes, mimeType) == [blob |-> bytes, type |-> mimeType]

Progress(phase, fraction) == [phase |-> phase, fraction |-> fraction]

\* what a call of the remote service can come back with: the service is
\* outside the client, so every reply of the declared type is possible
Rejections == { Thrown(TRUE, "Call was rejected"), Thrown(FALSE, "trap") }
\* "Session-" # n and "image-" # n
TextId(prefix, n) == [prefix |-> prefix, n |-> n]
SessionIds == { TextId("Session-", 0), TextId("Session-", 1) }
FinalizeReplies ==
    { [ok |-> NULL, err |-> "all chunks not received yet"],
      [ok |-> NULL, err |-> ""],
      [ok |-> [imageId |-> TextId("image-", 1), enhancedImage |-> << >>], err |-> ""],
      [ok |-> [imageId |-> TextId("image-", 1), enhancedImage |-> <<137>>], err |-> ""],
      [ok |-> [imageId |-> TextId("image-", 1),
               enhancedImage |-> <<255, 216, 255, 224>>], err |-> ""] }

isProcessing == appState = "processing"
hasResult == appState = "done"
\* an Enhance button that is never disabled
isPending_Never == FALSE
isPending == mutation.status = "pending"

uploaderVars == <<preview, fileName, uploaderError, reads>>
selectionVars == <<originalUrl, imageBytesRef, fileTypeRef, originalUrlRef>>

\* ImageUploader.validateAndProcess, up to its await: reached by a drop on
\* the drop zone or by the file input, both only while no preview is shown
validateAndProcess(file) ==
    /\ preview = NULL
    /\ IF file.type \notin ACCEPTED_TYPES
       THEN /\ uploaderError' = Msg("Only JPEG and PNG images are supported.")
            /\ UNCHANGED <<preview, fileName, reads>>
       ELSE /\ uploaderError' = NULL
            /\ preview' = ObjectUrl(file)
            /\ fileName' = Msg(file.name)
            /\ reads' = reads \cup {file}
    /\ UNCHANGED <<appState, appEnhancedUrl, errorMessage, uploadProgress,
                   enhancementMode, prevEnhancedUrlRef, mutation, run>>
    /\ UNCHANGED selectionVars
    /\ UNCHANGED outsideApp

\* App.handleImageSelected that keeps the previous result
handleImageSelected_KeepsEnhanced(file, previewUrl, data) ==
    /\ originalUrlRef' = previewUrl
    /\ imageBytesRef' = [bytes |-> data]
    /\ fileTypeRef' = IF file.type = "" THEN "image/jpeg" ELSE file.type
    /\ originalUrl' = previewUrl
    /\ UNCHANGED appEnhancedUrl
    /\ errorMessage' = NULL
    /\ uploadProgress' = NULL
    /\ appState' = "ready"

\* App.handleImageSelected
handleImageSelected(file, previewUrl, data) ==
    /\ originalUrlRef' = previewUrl
    /\ imageBytesRef' = [bytes |-> data]
    /\ fileTypeRef' = IF file.type = "" THEN "image/jpeg" ELSE file.type
    /\ originalUrl' = previewUrl
    /\ appEnhancedUrl' = NULL
    /\ errorMessage' = NULL
    /\ uploadProgress' = NULL
    /\ appState' = "ready"

\* the rest of validateAndProcess: file.arrayBuffer() resolved
readResolved(file) ==
    /\ file \in reads
    /\ reads' = reads \ {file}
    /\ handleImageSelected(file, ObjectUrl(file), file.bytes)
    /\ UNCHANGED <<enhancementMode, prevEnhancedUrlRef, mutation, run,
                   preview, fileName, uploaderError>>
    /\ UNCHANGED outsideApp

\* file.arrayBuffer() rejected: validateAndProcess ends without a callback
readRejected(file) ==
    /\ file \in reads
    /\ reads' = reads \ {file}
    /\ UNCHANGED <<appState, appEnhancedUrl, errorMessage, uploadProgress,
                   enhancementMode, prevEnhancedUrlRef, mutation, run,
                   preview, fileName, uploaderError>>
    /\ UNCHANGED selectionVars
    /\ UNCHANGED outsideApp

\* App.handleReset
App_handleReset ==
    /\ appState' = "idle"
    /\ originalUrl' = NULL
    /\ appEnhancedUrl' = NULL
    /\ errorMessage' = NULL
    /\ uploadProgress' = NULL
    /\ imageBytesRef' = NULL
    /\ UNCHANGED <<enhancementMode, fileTypeRef, originalUrlRef,
                   prevEnhancedUrlRef, mutation, run>>

\* the Reset button next to Enhance and the 'Enhance another' button
clickReset ==
    /\ appState \in {"ready", "error", "done"}
    /\ App_handleReset
    /\ UNCHANGED uploaderVars
    /\ UNCHANGED outsideApp

\* ImageUploader.handleReset, the X button on the preview
ImageUploader_handleReset ==
    /\ preview # NULL
    /\ ~isProcessing
    /\ ~hasResult
    /\ preview' = NULL
    /\ fileName' = NULL
    /\ uploaderError' = NULL
    /\ UNCHANGED reads
    /\ App_handleReset
    /\ UNCHANGED outsideApp

\* the mode buttons
setEnhancementMode(mode) ==
    /\ ~isProcessing
    /\ enhancementMode' = mode
    /\ UNCHANGED <<appState, appEnhancedUrl, errorMessage, uploadProgress,
                   prevEnhancedUrlRef, mutation, run>>
    /\ UNCHANGED selectionVars
    /\ UNCHANGED uploaderVars
    /\ UNCHANGED outsideApp

\* the message handleEnhance's catch block shows
caughtMessage(err) ==
    IF err.isError THEN err.message ELSE "Enhancement failed. Please try again."

\* mutationFn throws: the mutation settles as an error and the catch block
\* of handleEnhance runs
catch(err) ==
    /\ mutation' = [status |-> "error", error |-> err, data |-> NULL]
    /\ run' = NULL
    /\ errorMessage' = Msg(caughtMessage(err))
    /\ uploadProgress' = NULL
    /\ appState' = "error"
    /\ UNCHANGED <<appEnhancedUrl, enhancementMode, prevEnhancedUrlRef>>
    /\ UNCHANGED selectionVars
    /\ UNCHANGED uploaderVars

\* mutationFn goes on to its next await
continue(next, progress) ==
    /\ run' = next
    /\ uploadProgress' = progress
    /\ UNCHANGED <<appState, appEnhancedUrl, errorMessage, enhancementMode,
                   prevEnhancedUrlRef, mutation>>
    /\ UNCHANGED selectionVars
    /\ UNCHANGED uploaderVars

\* App.handleEnhance from the Enhance button, and mutationFn up to the call
\* of initUpload; hasActor is what useActor had delivered at that time
handleEnhance(hasActor) ==
    /\ appState \in {"ready", "error"}
    /\ ~isPending
    /\ IF originalUrl = NULL \/ imageBytesRef = NULL
       THEN UNCHANGED appVars
       ELSE IF ~hasActor
       THEN catch(Thrown(TRUE, "Backend not available"))
       ELSE /\ appState' = "processing"
            /\ errorMessage' = NULL
            /\ uploadProgress' = Progress("uploading", Rat(0, 1))
            /\ prevEnhancedUrlRef' = NULL
            /\ mutation' = [status |-> "pending", error |-> NULL, data |-> NULL]
            /\ run' = [pc |-> "initUpload",
                       chunks |-> splitIntoChunks(imageBytesRef.bytes, CHUNK_SIZE),
                       fileType |-> fileTypeRef,
                       enhancementMode |-> enhancementMode,
                       sessionId |-> NULL,
                       i |-> 0]
            /\ UNCHANGED <<appEnhancedUrl, enhancementMode>>
            /\ UNCHANGED selectionVars
            /\ UNCHANGED uploaderVars
    /\ UNCHANGED outsideApp

\* reportProgress({enhancing, 1}) and the call of finalizeUpload
toFinalize == [run EXCEPT !.pc = "finalizeUpload"]

\* actor.initUpload settles
initUploadSettled(reply) ==
    /\ run # NULL
    /\ run.pc = "initUpload"
    /\ IF reply \in Rejections
       THEN catch(reply)
       ELSE IF Len(run.chunks) = 0
       THEN continue([toFinalize EXCEPT !.sessionId = reply],
                     Progress("enhancing", Rat(1, 1)))
       ELSE continue([run EXCEPT !.pc = "uploadChunk", !.sessionId = reply],
                     uploadProgress)
    /\ UNCHANGED outsideApp

\* actor.uploadChunk settles, the fraction reported from the index of the
\* chunk instead of the number of chunks uploaded
uploadChunkSettled_ReportsIndex(reply) ==
    /\ run # NULL
    /\ run.pc = "uploadChunk"
    /\ IF reply \in Rejections
       THEN catch(reply)
       ELSE IF run.i + 1 < Len(run.chunks)
       THEN continue([run EXCEPT !.i = run.i + 1],
                     Progress("uploading", Rat(run.i, Len(run.chunks))))
       ELSE continue([toFinalize EXCEPT !.i = run.i + 1],
                     Progress("enhancing", Rat(1, 1)))
    /\ UNCHANGED outsideApp

\* actor.uploadChunk(sessionId, i, chunks[i]) settles
uploadChunkSettled(reply) ==
    /\ run # NULL
    /\ run.pc = "uploadChunk"
    /\ IF reply \in Rejections
       THEN catch(reply)
       ELSE IF run.i + 1 < Len(run.chunks)
       THEN continue([run EXCEPT !.i = run.i + 1],
                     Progress("uploading", Rat(run.i + 1, Len(run.chunks))))
       ELSE continue([toFinalize EXCEPT !.i = run.i + 1],
                     Progress("enhancing", Rat(1, 1)))
    /\ UNCHANGED outsideApp

\* mutationFn returns and handleEnhance stores the result
succeed(imageId, url) ==
    /\ prevEnhancedUrlRef' = url
    /\ mutation' = [status |-> "success", error |-> NULL,
                    data |-> [imageId |-> imageId, enhancedUrl |-> url]]
    /\ run' = NULL
    /\ appEnhancedUrl' = url
    /\ uploadProgress' = NULL
    /\ appState' = "done"
    /\ UNCHANGED <<errorMessage, enhancementMode>>
    /\ UNCHANGED selectionVars
    /\ UNCHANGED uploaderVars

\* actor.finalizeUpload settles
finalizeUploadSettled(reply) ==
    /\ run # NULL
    /\ run.pc = "finalizeUpload"
    /\ IF reply \in Rejections
       THEN catch(reply)
       ELSE IF reply.ok = NULL
       THEN catch(Thrown(TRUE, IF reply.err = ""
                               THEN "Enhancement failed on the backend"
                               ELSE reply.err))
       ELSE IF Len(reply.ok.enhancedImage) = 0
       THEN catch(Thrown(TRUE, "Backend returned empty image data"))
       ELSE LET bytes == reply.ok.enhancedImage
                detectedMime == detectMimeType(bytes)
                mimeType == IF detectedMime # "image/png" THEN detectedMime
                            ELSE run.fileType
            IN  succeed(reply.ok.imageId, createBlobUrlFromBytes(bytes, mimeType))
    /\ UNCHANGED outsideApp

AppInit ==
    /\ SessionInit
    /\ ImageIdle
    /\ AppIdle
    /\ BackendIdle

AppNext ==
    \/ \E file \in Files : validateAndProcess(file)
    \/ \E file \in reads : readResolved(file)
    \/ \E file \in reads : readRejected(file)
    \/ clickReset
    \/ ImageUploader_handleReset
    \/ \E mode \in {"standard", "anime"} : setEnhancementMode(mode)
    \/ \E hasActor \in BOOLEAN : handleEnhance(hasActor)
    \/ \E reply \in SessionIds \cup Rejections : initUploadSettled(reply)
    \/ \E reply \in {NULL} \cup Rejections : uploadChunkSettled(reply)
    \/ \E reply \in FinalizeReplies \cup Rejections : finalizeUploadSettled(reply)

SpecApp == AppInit /\ [][AppNext]_vars

----------------------------------------------------------------------------
(* The backend actor (main.mo): upload sessions, chunks, finalize.  A Map   *)
(* is a function on its keys, a [Nat8] a sequence of numbers, a Text the    *)
(* record [text] or a TextId.  A call that traps leaves the state as it was *)
(* and its reply is the trap.                                               *)

\* initUpload is called while the id counter is below MaxIds (a finalizeUpload
\* that succeeds consumes a session, so the counter stays below 2 * MaxIds),
\* and at most MaxUploads chunks are uploaded over all sessions
MaxIds == 2
MaxUploads == 2

\* what callers send
ChunkData == { <<1>>, <<2, 3>> }
ChunkIndexes == 0..2
TotalChunks == 0..2
SessionIdInputs == { TextId("Session-", n) : n \in 0..(MaxIds - 1) }
ImageIdInputs == { TextId("image-", n) : n \in 1..(2 * MaxIds - 1) }

Text(t) == [text |-> t]
Result(v) == [trap |-> FALSE, value |-> v]
Trap(msg) == [trap |-> TRUE, msg |-> msg]

\* Map.get # null, Map.add (replaces the entry of an existing key), Map.remove
has(map, k) == k \in DOMAIN map
add(map, k, v) == [x \in DOMAIN map \cup {k} |-> IF x = k THEN v ELSE map[x]]
\* a remove that empties the map
remove_All(map, k) == EmptyMap
\* a remove that leaves the entry in the map
remove_Keeps(map, k) == map
remove(map, k) == [x \in DOMAIN map \ {k} |-> map[x]]
size(map) == Cardinality(DOMAIN map)

\* all chunks uploaded so far, over all sessions
uploaded ==
    LET RECURSIVE count(_)
        count(S) == IF S = {} THEN 0
                    ELSE LET s == CHOOSE x \in S : TRUE
                         IN  Len(arrivals[s]) + count(S \ {s})
    IN  count(DOMAIN arrivals)

Respond(op, arg, reply) == response' = [op |-> op, arg |-> arg, reply |-> reply]

\* initUpload without nextImageId += 1
initUpload_CounterKept(totalChunks, fileType) ==
    /\ nextImageId < MaxIds
    /\ LET sessionId == TextId("Session-", nextImageId)
           session == [totalChunks |-> totalChunks,
                       receivedChunks |-> EmptyMap,
                       fileType |-> fileType]
       IN  /\ nextImageId' = nextImageId
           /\ uploadSessions' = add(uploadSessions, sessionId, session)
           /\ arrivals' = add(arrivals, sessionId, << >>)
           /\ Respond("initUpload",
                      [totalChunks |-> totalChunks, fileType |-> fileType],
                      Result(sessionId))
    /\ UNCHANGED images
    /\ UNCHANGED outsideBackend
initUpload(totalChunks, fileType) ==
    /\ nextImageId < MaxIds
    /\ LET sessionId == TextId("Session-", nextImageId)
           session == [totalChunks |-> totalChunks,
                       receivedChunks |-> EmptyMap,
                       fileType |-> fileType]
       IN  /\ nextImageId' = nextImageId + 1
           /\ uploadSessions' = add(uploadSessions, sessionId, session)
           /\ arrivals' = add(arrivals, sessionId, << >>)
           /\ Respond("initUpload",
                      [totalChunks |-> totalChunks, fileType |-> fileType],
                      Result(sessionId))
    /\ UNCHANGED images
    /\ UNCHANGED outsideBackend

uploadChunk(sessionId, chunkIndex, data) ==
    /\ uploaded < MaxUploads
    /\ LET arg == [sessionId |-> sessionId, chunkIndex |-> chunkIndex,
                   data |-> data]
       IN  IF ~has(uploadSessions, sessionId)
           THEN /\ Respond("uploadChunk", arg, Trap("Upload session not found"))
                /\ UNCHANGED <<uploadSessions, arrivals>>
           ELSE LET session == uploadSessions[sessionId]
                IN  /\ uploadSessions' =
                           add(uploadSessions, sessionId,
                               [session EXCEPT !.receivedChunks =
                                    add(session.receivedChunks, chunkIndex, data)])
                    /\ arrivals' = add(arrivals, sessionId,
                                       Append(arrivals[sessionId],
                                              [chunkIndex |-> chunkIndex,
                                               data |-> data]))
                    /\ Respond("uploadChunk", arg, Result(NULL))
    /\ UNCHANGED <<images, nextImageId>>
    /\ UNCHANGED outsideBackend

\* the while loop of assembleChunks
RECURSIVE collectChunks(_, _, _)
collectChunks(session, chunkIndex, resultList) ==
    IF chunkIndex < session.totalChunks
    THEN IF ~has(session.receivedChunks, chunkIndex)
         THEN Trap("Missing chunk at index $chunkIndex")
         ELSE collectChunks(session, chunkIndex + 1,
                            Append(resultList, session.receivedChunks[chunkIndex]))
    ELSE Result(resultList)

\* the for loop of assembleChunks, putting each chunk in front
RECURSIVE concatChunks_Prepend(_, _)
concatChunks_Prepend(resultList, result) ==
    IF resultList = << >> THEN result
    ELSE concatChunks_Prepend(Tail(resultList), Head(resultList) \o result)

\* the for loop of assembleChunks
RECURSIVE concatChunks(_, _)
concatChunks(resultList, result) ==
    IF resultList = << >> THEN result
    ELSE concatChunks(Tail(resultList), result \o Head(resultList))

assembleChunks(session) ==
    LET resultList == collectChunks(session, 0, << >>)
    IN  IF resultList.trap THEN resultList
        ELSE Result(concatChunks(resultList.value, << >>))

applyEnhancement(image, mode) == << >> \o image

\* finalizeUpload without its while loop
firstMissing_NotLookedFor(session, chunkIndex) == -1
\* the while loop of finalizeUpload: the first missing index, or -1
RECURSIVE firstMissing(_, _)
firstMissing(session, chunkIndex) ==
    IF chunkIndex < session.totalChunks
    THEN IF ~has(session.receivedChunks, chunkIndex) THEN chunkIndex
         ELSE firstMissing(session, chunkIndex + 1)
    ELSE -1

Unchanged_backend == UNCHANGED <<uploadSessions, images, nextImageId>>

\* finalizeUpload without the comparison of receivedChunks.size() with
\* totalChunks
finalizeUpload_NoSizeCheck(sessionId, mode) ==
    /\ LET arg == [sessionId |-> sessionId, mode |-> mode]
           Err(err) == /\ Respond("finalizeUpload", arg,
                                  Result([ok |-> NULL, err |-> err]))
                       /\ Unchanged_backend
       IN  IF ~has(uploadSessions, sessionId)
           THEN Err(Text("no upload session found"))
           ELSE LET session == uploadSessions[sessionId]
                    missing == firstMissing(session, 0)
                    finalImage == assembleChunks(session)
                    imageId == TextId("image-", nextImageId)
                    enhancedImage ==
                        IF finalImage.value # << >>
                        THEN LET processed == applyEnhancement(finalImage.value, mode)
                             IN  IF processed # << >> THEN processed
                                 ELSE finalImage.value
                        ELSE << >>
                IN  IF missing # -1
                    THEN Err(TextId("missing chunk at index ", missing))
                    ELSE IF finalImage.trap
                    THEN /\ Respond("finalizeUpload", arg, finalImage)
                         /\ Unchanged_backend
                    ELSE /\ nextImageId' = nextImageId + 1
                         /\ images' = add(images, imageId, enhancedImage)
                         /\ uploadSessions' = remove(uploadSessions, sessionId)
                         /\ Respond("finalizeUpload", arg,
                                    Result([ok |-> [imageId |-> imageId,
                                                    enhancedImage |-> enhancedImage],
                                            err |-> Text("")]))
    /\ UNCHANGED arrivals
    /\ UNCHANGED outsideBackend
finalizeUpload(sessionId, mode) ==
    /\ LET arg == [sessionId |-> sessionId, mode |-> mode]
           Err(err) == /\ Respond("finalizeUpload", arg,
                                  Result([ok |-> NULL, err |-> err]))
                       /\ Unchanged_backend
       IN  IF ~has(uploadSessions, sessionId)
           THEN Err(Text("no upload session found"))
           ELSE LET session == uploadSessions[sessionId]
                    missing == firstMissing(session, 0)
                    finalImage == assembleChunks(session)
                    imageId == TextId("image-", nextImageId)
                    enhancedImage ==
                        IF finalImage.value # << >>
                        THEN LET processed == applyEnhancement(finalImage.value, mode)
                             IN  IF processed # << >> THEN processed
                                 ELSE finalImage.value
                        ELSE << >>
                IN  IF size(session.receivedChunks) # session.totalChunks
                    THEN Err(Text("all chunks not received yet"))
                    ELSE IF missing # -1
                    THEN Err(TextId("missing chunk at index ", missing))
                    ELSE IF finalImage.trap
                    THEN /\ Respond("finalizeUpload", arg, finalImage)
                         /\ Unchanged_backend
                    ELSE /\ nextImageId' = nextImageId + 1
                         /\ images' = add(images, imageId, enhancedImage)
                         /\ uploadSessions' = remove(uploadSessions, sessionId)
                         /\ Respond("finalizeUpload", arg,
                                    Result([ok |-> [imageId |-> imageId,
                                                    enhancedImage |-> enhancedImage],
                                            err |-> Text("")]))
    /\ UNCHANGED arrivals
    /\ UNCHANGED outsideBackend

getImageRaw(imageId) ==
    /\ Respond("getImageRaw", [imageId |-> imageId],
               IF has(images, imageId) THEN Result(images[imageId])
               ELSE Trap("Image not found"))
    /\ Unchanged_backend
    /\ UNCHANGED arrivals
    /\ UNCHANGED outsideBackend

getAllImageIds ==
    /\ Respond("getAllImageIds", NULL, Result(DOMAIN images))
    /\ Unchanged_backend
    /\ UNCHANGED arrivals
    /\ UNCHANGED outsideBackend

BackendInit ==
    /\ SessionInit
    /\ ImageIdle
    /\ AppIdle
    /\ BackendIdle

BackendNext ==
    \/ \E totalChunks \in TotalChunks : initUpload(totalChunks, "image/png")
    \/ \E sessionId \in SessionIdInputs, chunkIndex \in ChunkIndexes,
          data \in ChunkData : uploadChunk(sessionId, chunkIndex, data)
    \/ \E sessionId \in SessionIdInputs, mode \in {"standard", "anime"} :
          finalizeUpload(sessionId, mode)
    \/ \E imageId \in ImageIdInputs : getImageRaw(imageId)
    \/ getAllImageIds

SpecBackend == BackendInit /\ [][BackendNext]_vars


----------------------------------------------------------------------------
(* One run of mutationFn against the actor: the bytes of the selected file  *)
(* are split, the session is opened, the chunks are uploaded by index and   *)
(* the upload is finalized.  The client awaits every call, so the call it   *)
(* makes next follows from the call the actor answered last.                *)

\* the longest file and the largest chunk size of the runs
MaxBytes == 3
MaxChunkSize == 3

ByteValues == {0, 137, 255}
ByteArrays == UNION {[1..n -> ByteValues] : n \in 1..MaxBytes}

\* sessionId as returned by initUpload, then as passed on with each call
awaitedSessionId ==
    IF response.op = "initUpload" THEN response.reply.value
    ELSE response.arg.sessionId

\* the i of the for loop: the index after the one uploaded last
awaitedIndex ==
    IF response.op = "initUpload" THEN 0 ELSE response.arg.chunkIndex + 1

\* await actor.initUpload(BigInt(totalChunks), fileType)
callInitUpload ==
    /\ response.op = "install"
    /\ initUpload(Len(run.chunks), run.fileType)

\* await actor.uploadChunk(sessionId, BigInt(i), chunks[i])
callUploadChunk ==
    /\ response.op \in {"initUpload", "uploadChunk"}
    /\ ~response.reply.trap
    /\ awaitedIndex < Len(run.chunks)
    /\ uploadChunk(awaitedSessionId, awaitedIndex, run.chunks[awaitedIndex + 1])

\* await actor.finalizeUpload(sessionId, enhancementMode)
callFinalizeUpload ==
    /\ response.op \in {"initUpload", "uploadChunk"}
    /\ ~response.reply.trap
    /\ awaitedIndex >= Len(run.chunks)
    /\ finalizeUpload(awaitedSessionId, run.enhancementMode)

\* the App after handleEnhance started a run for a selected file; the run was
\* started with the chunk size chunkSize
UploadInit ==
    /\ SessionInit
    /\ ImageIdle
    /\ BackendIdle
    /\ \E bytes \in ByteArrays, chunkSize \in 1..MaxChunkSize,
          mode \in {"standard", "anime"} :
          LET file == [name |-> "upload.png", type |-> "image/png", bytes |-> bytes]
          IN  /\ appState = "processing"
              /\ originalUrl = ObjectUrl(file)
              /\ appEnhancedUrl = NULL
              /\ errorMessage = NULL
              /\ uploadProgress = Progress("uploading", Rat(0, 1))
              /\ enhancementMode = mode
              /\ imageBytesRef = [bytes |-> bytes]
              /\ fileTypeRef = file.type
              /\ originalUrlRef = ObjectUrl(file)
              /\ prevEnhancedUrlRef = NULL
              /\ mutation = [status |-> "pending", error |-> NULL, data |-> NULL]
              /\ run = [pc |-> "initUpload",
                        chunks |-> splitIntoChunks(bytes, chunkSize),
                        chunkSize |-> chunkSize,
                        fileType |-> file.type,
                        enhancementMode |-> mode,
                        sessionId |-> NULL,
                        i |-> 0]
              /\ preview = ObjectUrl(file)
              /\ fileName = Msg(file.name)
              /\ uploaderError = NULL
              /\ reads = {}

UploadNext ==
    \/ callInitUpload
    \/ callUploadChunk
    \/ callFinalizeUpload

SpecUpload == UploadInit /\ [][UploadNext]_vars

----------------------------------------------------------------------------
(* The sliders of ImageEnhancementControls on a loaded session *)

\* min and max of each SliderRow
SliderRange(key) ==
    CASE key = "brightness" -> [min |-> -100, max |-> 100]
      [] key = "contrast" -> [min |-> -100, max |-> 100]
      [] key = "saturation" -> [min |-> 0, max |-> 200]
      [] key = "sharpness" -> [min |-> 0, max |-> 100]
      [] key = "noiseReduction" -> [min |-> 0, max |-> 100]
      [] key = "rotation" -> [min |-> -45, max |-> 45]

\* the Slider component: the value it hands to onValueChange for a thumb
\* position is held inside [min, max]
Slider(min, max, position) == Max(min, Min(max, position))

\* thumb positions: for each control one inside, one below and one above the
\* range
ThumbPositions ==
    {[key |-> "brightness", v |-> 50], [key |-> "brightness", v |-> -130],
     [key |-> "brightness", v |-> 101],
     [key |-> "contrast", v |-> -20], [key |-> "contrast", v |-> -101],
     [key |-> "contrast", v |-> 300],
     [key |-> "saturation", v |-> 0], [key |-> "saturation", v |-> -1],
     [key |-> "saturation", v |-> 201],
     [key |-> "sharpness", v |-> 100], [key |-> "sharpness", v |-> -5],
     [key |-> "sharpness", v |-> 150],
     [key |-> "noiseReduction", v |-> 25], [key |-> "noiseReduction", v |-> -1],
     [key |-> "noiseReduction", v |-> 101],
     [key |-> "rotation", v |-> 10], [key |-> "rotation", v |-> -46],
     [key |-> "rotation", v |-> 90]}

\* SliderRow: onValueChange={([v]) => onChange(v)} with onChange = set(key)
onValueChange(thumb) ==
    onChange([key |-> thumb.key,
              v |-> Slider(SliderRange(thumb.key).min, SliderRange(thumb.key).max,
                           thumb.v),
              position |-> thumb.v])

\* the session after the image of URL A was decoded and upscaled
ControlsInit ==
    /\ isActive = FALSE
    /\ rect = NULL
    /\ isDragging = FALSE
    /\ startRef = NULL
    /\ overlayRef = NULL
    /\ enhancedUrl = [url |-> "A"]
    /\ baseCanvasRef = upscaleImage(enhancedUrl)
    /\ values = DEFAULT_ENHANCEMENT_VALUES
    /\ appliedCrop = NULL
    /\ outputCanvasRef = applyAdjustments(baseCanvasRef, renderOpts(values, NULL))
    /\ displaySize \in DisplaySizes
    /\ isProcessingCanvas = FALSE
    /\ pending = {}
    /\ used = {enhancedUrl}
    /\ lastCall = Call("decodeResolved", [url |-> enhancedUrl, cancelled |-> FALSE],
                       NULL)
    /\ ImageIdle
    /\ AppIdle
    /\ BackendIdle

ControlsNext ==
    \/ \E thumb \in ThumbPositions : onValueChange(thumb)
    \/ handleReset

SpecControls == ControlsInit /\ [][ControlsNext]_vars

----------------------------------------------------------------------------
(* Properties *)

\* the display size as the scale factors use it: a zero dimension counts as 1
dispW == IF displaySize.w = 0 THEN 1 ELSE displaySize.w
dispH == IF displaySize.h = 0 THEN 1 ELSE displaySize.h

\* a rect with integer coordinates
IntRect(x, y, w, h) == [x |-> RInt(x), y |-> RInt(y), w |-> RInt(w), h |-> RInt(h)]

\* no rect, or a rect narrower or lower than 4 native pixels
BelowMinimum(r) == r = NULL \/ r.w.n < 4 * r.w.d \/ r.h.n < 4 * r.h.d

\* the rect r lies inside the canvas
InsideCanvas(r, canvas) ==
    /\ r.x.n >= 0
    /\ r.y.n >= 0
    /\ RLeq(RAdd(r.x, r.w), RInt(canvas.width))
    /\ RLeq(RAdd(r.y, r.h), RInt(canvas.height))

\* C1: confirmCrop() returns null and leaves isActive, rect and isDragging
\* as they were whenever rect is null or narrower or lower than 4 native
\* pixels.
C1_RejectedConfirm ==
    [][(lastCall'.op = "handleCropConfirm" /\ BelowMinimum(rect))
         => (lastCall'.ret = NULL /\ UNCHANGED <<isActive, rect, isDragging>>)]_vars

\* a confirm was rejected for a rect that is wide enough but too low, and
\* the selection is still active with that rect
C1_Witness ==
    /\ lastCall.op = "handleCropConfirm"
    /\ lastCall.ret = NULL
    /\ isActive
    /\ rect # NULL
    /\ rect.w.n >= 4 * rect.w.d
    /\ rect.h.n > 0
    /\ rect.h.n < 4 * rect.h.d

\* C2: with a rect of at least 4 x 4 native pixels, confirmCrop() returns
\* exactly that rect and the selection becomes Inert: isActive and
\* isDragging false, the anchor cleared.
C2_AcceptedConfirm ==
    [][(lastCall'.op = "handleCropConfirm" /\ ~BelowMinimum(rect))
         => (/\ lastCall'.ret = rect
             /\ isActive' = FALSE
             /\ isDragging' = FALSE
             /\ startRef' = NULL)]_vars

\* a confirm in the middle of a drag returned a rect exactly 4 pixels high
C2_Witness ==
    /\ lastCall.op = "handleCropConfirm"
    /\ lastCall.from = "Dragging"
    /\ lastCall.ret # NULL
    /\ lastCall.ret.h = RInt(4)
    /\ ~isActive
    /\ ~isDragging
    /\ startRef = NULL

C4_StaleDecodeDiscarded ==
    /\ [][(/\ lastCall'.op \in {"decodeResolved", "decodeRejected"}
           /\ lastCall'.arg.url # enhancedUrl)
            => UNCHANGED <<baseCanvasRef, values, appliedCrop>>]_vars
    /\ [][(/\ lastCall'.op = "decodeResolved"
           /\ lastCall'.arg.url = enhancedUrl)
            => baseCanvasRef' = upscaleImage(enhancedUrl)]_vars

\* the decode of an earlier URL resolved after the one of the current URL
\* and after a slider was moved: the base bitmap is still the current
\* URL's and the slider value is kept
C4_Witness ==
    /\ lastCall.op = "decodeResolved"
    /\ enhancedUrl # NULL
    /\ lastCall.arg.url # enhancedUrl
    /\ baseCanvasRef = upscaleImage(enhancedUrl)
    /\ values.brightness = 50

\* C5: among the operations of a session, only a rotate90 commit and an
\* accepted crop confirm replace the base bitmap; a control change, reset,
\* activate and cancel crop, the pointer events, a rejected confirm, the
\* export and the run of applyAdjustments in them leave it as it was.
\* (Outside of these, the load effect sets the base bitmap when a decode
\* resolves and clears it when the URL is withdrawn.)
C5_OnlyCommitsReplaceBase ==
    [][(baseCanvasRef' # baseCanvasRef)
         => \/ lastCall'.op = "handleRotate90"
            \/ lastCall'.op = "handleCropConfirm" /\ lastCall'.ret # NULL
            \/ lastCall'.op \in {"loadEffect", "decodeResolved"}]_vars

\* a control change on a base that carries a commit: applyAdjustments ran
\* on that base with the new value, and the base is still the committed one
C5_Witness ==
    /\ lastCall.op = "onChange"
    /\ baseCanvasRef # NULL
    /\ Len(baseCanvasRef.pixels) = 2
    /\ values.brightness = 50
    /\ outputCanvasRef = applyAdjustments(baseCanvasRef, renderOpts(values, NULL))

\* C6: cancelCrop(), in any selection phase, results in isActive false,
\* rect null, isDragging false and no anchor.
C6_CancelResets ==
    [][(lastCall'.op = "cancelCrop")
         => (/\ isActive' = FALSE
             /\ rect' = NULL
             /\ isDragging' = FALSE
             /\ startRef' = NULL)]_vars

\* cancelCrop was called in the middle of a drag
C6_Witness ==
    /\ lastCall.op = "cancelCrop"
    /\ lastCall.from = "Dragging"
    /\ Phase = "Inert"
    /\ rect = NULL

\* C7: activateCrop(), called when Inert or Active (with or without a
\* frozen rect), results in Active with rect null and isDragging false.
C7_ActivateClearsRect ==
    [][(lastCall'.op = "activateCrop" /\ ~isDragging)
         => (isActive' = TRUE /\ rect' = NULL /\ isDragging' = FALSE)]_vars

\* activateCrop was called while Active with a frozen rect
C7_Witness ==
    /\ lastCall.op = "activateCrop"
    /\ lastCall.from = "ActiveFrozen"
    /\ Phase = "Active"

\* C8: a pointer-down at display position p while Active records p as the
\* anchor, sets rect to (p.x*scaleX, p.y*scaleY, 0, 0) and starts a drag; a
\* pointer-down while Inert changes nothing.
C8_PointerDown ==
    [][(lastCall'.op = "handleMouseDown")
         => IF isActive
            THEN /\ isDragging' = TRUE
                 /\ lastCall'.arg # NULL
                 /\ startRef' = getRelativePos(lastCall'.arg)
                 /\ rect' = [x |-> Rat(startRef'.x * nativeWidth, dispW),
                             y |-> Rat(startRef'.y * nativeHeight, dispH),
                             w |-> RInt(0), h |-> RInt(0)]
            ELSE UNCHANGED <<isActive, rect, isDragging, startRef>>]_vars

\* C9: while Dragging with anchor a, a pointer-move to display position c
\* sets rect to (min(a.x,c.x)*scaleX, min(a.y,c.y)*scaleY, |c.x-a.x|*scaleX,
\* |c.y-a.y|*scaleY), of non-negative width and height; a drag from (10,10)
\* to (2,2) on a 100x100 display of a 200x200 image gives (4,4,16,16), which
\* confirmCrop() returns.
C9_PointerMove ==
    /\ [][(lastCall'.op = "handleMouseMove" /\ isDragging /\ startRef # NULL)
            => /\ lastCall'.arg # NULL
               /\ LET a == startRef
                      c == getRelativePos(lastCall'.arg)
                  IN  rect' = [x |-> Rat(Min(a.x, c.x) * nativeWidth, dispW),
                               y |-> Rat(Min(a.y, c.y) * nativeHeight, dispH),
                               w |-> Rat(Abs(c.x - a.x) * nativeWidth, dispW),
                               h |-> Rat(Abs(c.y - a.y) * nativeHeight, dispH)]
               /\ rect'.w.n >= 0
               /\ rect'.h.n >= 0]_vars
    /\ []((/\ lastCall.op = "handleMouseMove"
           /\ lastCall.arg = Pt(2, 2)
           /\ startRef = Pt(10, 10)
           /\ displaySize = [w |-> 100, h |-> 100]
           /\ nativeWidth = 200
           /\ nativeHeight = 200)
            => rect = IntRect(4, 4, 16, 16))
    /\ [][(lastCall'.op = "handleCropConfirm" /\ rect = IntRect(4, 4, 16, 16))
            => lastCall'.ret = IntRect(4, 4, 16, 16)]_vars

\* the drag from (10,10) to (2,2) on a 100x100 display of a 200x200 image
C9_Witness ==
    /\ lastCall.op = "handleMouseMove"
    /\ lastCall.arg = Pt(2, 2)
    /\ isDragging
    /\ startRef = Pt(10, 10)
    /\ displaySize = [w |-> 100, h |-> 100]
    /\ nativeWidth = 200
    /\ nativeHeight = 200
    /\ rect = IntRect(4, 4, 16, 16)

\* C10: a pointer-up while Dragging gives Active with the rect retained, and
\* pointer-moves after it, before the next pointer-down, do not change rect.
C10_PointerUpFreezes ==
    /\ [][(lastCall'.op = "handleMouseUp" /\ isDragging)
            => (isActive' = TRUE /\ isDragging' = FALSE /\ rect' = rect)]_vars
    /\ [][(lastCall'.op = "handleMouseMove" /\ ~isDragging) => rect' = rect]_vars

\* a pointer-move after the pointer-up of a drag: the anchor is still
\* stored, the rect is the one of the drag
C10_Witness ==
    /\ lastCall.op = "handleMouseMove"
    /\ Phase = "ActiveFrozen"
    /\ startRef # NULL
    /\ rect.w.n > 0

\* C11: with a display of positive width and height, the rect a pointer-down
\* or a pointer-move produces, for every pointer position (also outside the
\* display area), has 0 <= x, 0 <= y, x+w <= nativeWidth, y+h <= nativeHeight.
C11_RectInsideNative ==
    [][(/\ lastCall'.op \in {"handleMouseDown", "handleMouseMove"}
        /\ lastCall'.arg # NULL
        /\ displaySize.w > 0
        /\ displaySize.h > 0)
         => InsideCanvas(rect', [width |-> nativeWidth, height |-> nativeHeight])]_vars

\* a pointer-move to a position right of and above the display area: the
\* rect ends at the right edge and starts at the top edge of the image
C11_Witness ==
    /\ lastCall.op = "handleMouseMove"
    /\ lastCall.arg = Pt(120, -5)
    /\ displaySize.w > 0
    /\ rect # NULL
    /\ rect.w.n > 0
    /\ RAdd(rect.x, rect.w) = RInt(nativeWidth)
    /\ rect.y = RInt(0)

\* C12: reset sets every control value to its default, cancels the crop
\* selection and leaves the base bitmap, with every committed crop and
\* rotate90, as it was.
C12_ResetKeepsCommits ==
    [][(lastCall'.op = "handleReset")
         => (/\ values' = [brightness |-> 0, contrast |-> 0, saturation |-> 100,
                           sharpness |-> 0, noiseReduction |-> 0, rotation |-> 0]
             /\ isActive' = FALSE
             /\ rect' = NULL
             /\ isDragging' = FALSE
             /\ baseCanvasRef' = baseCanvasRef)]_vars

\* a reset in the middle of a drag, on a base that carries a committed
\* rotate90 or crop
C12_Witness ==
    /\ lastCall.op = "handleReset"
    /\ lastCall.from = "Dragging"
    /\ Phase = "Inert"
    /\ baseCanvasRef # NULL
    /\ Len(baseCanvasRef.pixels) = 2
    /\ values = DEFAULT_ENHANCEMENT_VALUES

\* two bitmaps of the same dimensions and pixel values
SameBitmap(a, b) == a.width = b.width /\ a.height = b.height /\ a.data = b.data

\* the stages of applyAdjustments in the specified order, and whether the
\* options make a stage run
StageOrder ==
    <<"crop", "rotation", "applyNoiseReduction", "applyBrightness", "applyContrast",
      "applySaturation", "applySharpen">>
StageWanted(name, opts) ==
    CASE name = "crop" -> opts.cropRect # NULL
      [] name = "rotation" -> opts.rotation # 0
      [] name = "applyNoiseReduction" -> opts.noiseReduction # 0
      [] name = "applyBrightness" -> opts.brightness # 0
      [] name = "applyContrast" -> opts.contrast # 0
      [] name = "applySaturation" -> opts.saturation # 100
      [] name = "applySharpen" -> opts.sharpness # 0

\* C13: applyAdjustments runs its stages in the order crop, free rotation,
\* NoiseReduction, Brightness, Contrast, Saturation, Sharpen: the stages that
\* ran are the non-neutral ones in that order, and the result is the
\* composition of the stages in that order.
C13_StageOrder ==
    (fnCall.op = "applyAdjustments" /\ ~threw(fnCall.out))
      => /\ fnCall.stages = SelectSeq(StageOrder, LAMBDA n : StageWanted(n, fnCall.arg))
         /\ SameBitmap(fnCall.out,
               applySharpen(
                 applySaturation(
                   applyContrast(
                     applyBrightness(
                       applyNoiseReduction(
                         rotationStep(cropStep(workCanvas, fnCall.arg.cropRect),
                                      fnCall.arg.rotation),
                         fnCall.arg.noiseReduction),
                       fnCall.arg.brightness),
                     fnCall.arg.contrast),
                   fnCall.arg.saturation),
                 fnCall.arg.sharpness))

\* a run with brightness and saturation at their neutral values and every
\* other stage active: the five active stages ran, in order
C13_Witness ==
    /\ fnCall.op = "applyAdjustments"
    /\ fnCall.arg.brightness = 0
    /\ fnCall.arg.saturation = 100
    /\ fnCall.stages = <<"crop", "rotation", "applyNoiseReduction", "applyContrast",
                         "applySharpen">>
    /\ workCanvas.width = 2

\* the neutral value of each filter
NeutralValue(name) == IF name = "applySaturation" THEN 100 ELSE 0

\* C14: each filter called with its neutral value returns its input itself,
\* without making a new bitmap.
C14_NeutralIsIdentity ==
    (/\ fnCall.op \in {"applyBrightness", "applyContrast", "applySaturation",
                       "applySharpen", "applyNoiseReduction"}
     /\ fnCall.arg = NeutralValue(fnCall.op))
      => fnCall.out = workCanvas

\* Saturation with 100 on a bitmap with a coloured and a translucent pixel
C14_Witness ==
    /\ fnCall.op = "applySaturation"
    /\ fnCall.arg = 100
    /\ fnCall.out = workCanvas
    /\ workCanvas.data = <<TEAL, SMOKE>>

\* C18: for a source of w x h, upscale draws into an intermediate canvas of
\* round(1.5 w) x round(1.5 h) and returns a canvas of exactly 2w x 2h.
C18_UpscaleDoubles ==
    fnCall.op = "upscaleImage"
      => /\ fnCall.out.step1 = [width |-> (3 * workCanvas.width + 1) \div 2,
                                height |-> (3 * workCanvas.height + 1) \div 2]
         /\ fnCall.out.step2 = [width |-> 2 * workCanvas.width,
                                height |-> 2 * workCanvas.height]

\* the upscale of a 1 x 3 source: 2 x 5 (4.5 rounded up), then 2 x 6
C18_Witness ==
    /\ fnCall.op = "upscaleImage"
    /\ workCanvas.width = 1
    /\ workCanvas.height = 3
    /\ fnCall.out.step1 = [width |-> 2, height |-> 5]
    /\ fnCall.out.step2 = [width |-> 2, height |-> 6]

\* C19: rotate90 swaps width and height, and four rotate90 in the same
\* direction give back the dimensions and the pixel values of the original.
C19_FourQuarterTurns ==
    fnCall.op = "rotate90"
      => /\ fnCall.out.width = workCanvas.height
         /\ fnCall.out.height = workCanvas.width
         /\ SameBitmap(workCanvas,
               rotate90Data(
                 rotate90Data(
                   rotate90Data(fnCall.out, fnCall.arg.clockwise),
                   fnCall.arg.clockwise),
                 fnCall.arg.clockwise))

\* a quarter turn of a 1 x 3 bitmap with three different pixels
C19_Witness ==
    /\ fnCall.op = "rotate90"
    /\ fnCall.arg.clockwise
    /\ workCanvas.width = 1
    /\ workCanvas.data = <<RED, TEAL, SMOKE>>
    /\ fnCall.out.width = 3
    /\ fnCall.out.data = <<SMOKE, TEAL, RED>>

\* C20: a crop with the rect (0, 0, width, height) gives a bitmap with the
\* dimensions and pixels of the input, in handleCropConfirm and in the crop
\* step of applyAdjustments.
C20_FullCropIsIdentity ==
    /\ (fnCall.op = "handleCropConfirm" /\ fnCall.arg = fullRect(workCanvas))
          => SameBitmap(fnCall.out, workCanvas)
    /\ (fnCall.op = "applyAdjustments" /\ fnCall.stages = <<"crop">>
           /\ fnCall.arg.cropRect = fullRect(workCanvas))
          => SameBitmap(fnCall.out, workCanvas)

\* the full crop of a 2 x 2 bitmap, committed by handleCropConfirm
C20_Witness ==
    /\ fnCall.op = "handleCropConfirm"
    /\ workCanvas.width = 2
    /\ workCanvas.height = 2
    /\ workCanvas.data = <<RED, TEAL, TEAL, RED>>
    /\ fnCall.arg = fullRect(workCanvas)
    /\ fnCall.out.data = workCanvas.data

\* C15: a failed decode creates and replaces nothing.  The start of a load
\* for a URL, every step while that load is pending, and the failure itself
\* leave the base bitmap, the control values and the applied crop as they
\* were, so after the failure they are what they were before the load.
C15_DecodeFailureKeepsState ==
    /\ [][(lastCall'.op = "decodeRejected")
            => UNCHANGED <<baseCanvasRef, values, appliedCrop>>]_vars
    /\ [][(lastCall'.op = "loadEffect" /\ lastCall'.arg # NULL)
            => UNCHANGED <<baseCanvasRef, values, appliedCrop>>]_vars
    /\ [][((\E q \in pending : ~q.cancelled)
             /\ lastCall'.op \notin {"loadEffect", "decodeResolved"})
            => UNCHANGED <<baseCanvasRef, values, appliedCrop>>]_vars

\* the decode of a second URL failed: the base is still the upscale of the
\* first URL and the slider value set in between is kept
C15_Witness ==
    /\ lastCall.op = "decodeRejected"
    /\ ~lastCall.arg.cancelled
    /\ lastCall.arg.url = enhancedUrl
    /\ baseCanvasRef # NULL
    /\ baseCanvasRef.pixels[1].url # enhancedUrl.url
    /\ values.brightness = 50
    /\ ~isProcessingCanvas

\* the step in which the pending run settles as failed
RunFails == mutation.status = "pending" /\ mutation'.status = "error"

\* C16: whenever the pending upload run fails (a remote call rejects,
\* finalizeUpload replies with an err result or with empty bytes), the App
\* is in state 'error' with the one message of that failure, the upload
\* progress is cleared, and enhancedUrl was null and stays null
C16_RemoteFailureEndsInError ==
    [][RunFails => /\ appState' = "error"
                   /\ errorMessage' # NULL
                   /\ errorMessage' = Msg(caughtMessage(mutation'.error))
                   /\ uploadProgress' = NULL
                   /\ appEnhancedUrl = NULL
                   /\ appEnhancedUrl' = NULL]_vars

\* a run of a selected file that got an err result from finalizeUpload
C16_Witness ==
    /\ appState = "error"
    /\ mutation.status = "error"
    /\ mutation.error = Thrown(TRUE, "all chunks not received yet")
    /\ errorMessage = Msg("all chunks not received yet")
    /\ uploadProgress = NULL
    /\ appEnhancedUrl = NULL
    /\ originalUrl # NULL

\* the data a session holds for chunkIndex according to the uploadChunk
\* calls it received: the data of the last call with that index
RECURSIVE lastUploaded(_, _)
lastUploaded(log, chunkIndex) ==
    IF log = << >> THEN NULL
    ELSE IF log[Len(log)].chunkIndex = chunkIndex THEN log[Len(log)]
    ELSE lastUploaded(SubSeq(log, 1, Len(log) - 1), chunkIndex)

\* the chunks 'from'..totalChunks-1 of the log, joined in ascending order
RECURSIVE inIndexOrder(_, _, _)
inIndexOrder(log, from, totalChunks) ==
    IF from >= totalChunks THEN << >>
    ELSE lastUploaded(log, from).data \o inIndexOrder(log, from + 1, totalChunks)

\* the session a finalizeUpload step is called with holds every index below
\* totalChunks
complete(sessionId) ==
    /\ has(uploadSessions, sessionId)
    /\ \A i \in 0..(uploadSessions[sessionId].totalChunks - 1) :
           lastUploaded(arrivals[sessionId], i) # NULL

\* C17: a finalizeUpload that succeeds returns the session's chunks joined in
\* ascending index order 0..totalChunks-1, whatever the order of the
\* uploadChunk calls was; every other finalizeUpload returns ok = null with
\* a non-empty err
C17_FinalizeAssemblesInIndexOrder ==
    [][response'.op = "finalizeUpload" =>
         LET sessionId == response'.arg.sessionId
             reply == response'.reply
         IN  /\ ~reply.trap
             /\ IF reply.value.ok # NULL
                THEN /\ complete(sessionId)
                     /\ reply.value.ok.enhancedImage =
                            inIndexOrder(arrivals[sessionId], 0,
                                         uploadSessions[sessionId].totalChunks)
                ELSE reply.value.err # Text("")]_vars

\* a session of two chunks that received index 1 before index 0 was
\* finalized
C17_Witness ==
    /\ response.op = "finalizeUpload"
    /\ ~response.reply.trap
    /\ response.reply.value.ok # NULL
    /\ response.reply.value.ok.enhancedImage = <<1, 2, 3>>
    /\ LET log == arrivals[response.arg.sessionId]
       IN  /\ Len(log) = 2
           /\ log[1].chunkIndex = 1
           /\ log[2].chunkIndex = 0

\* C21: for a crop rect of positive width and height (or none) and a
\* rotation in [-45, 45], the bitmap applyAdjustments works on after the crop
\* and rotation steps is at least 1 pixel wide and 1 pixel high.
C21_NoZeroSizedBitmap ==
    (/\ fnCall.op = "applyAdjustments"
     /\ fnCall.arg.cropRect # NULL => (/\ fnCall.arg.cropRect.w.n > 0
                                       /\ fnCall.arg.cropRect.h.n > 0))
      => /\ fnCall.out.width >= 1
         /\ fnCall.out.height >= 1

\* every field of an EnhancementValues record is inside its range
InRange(vals) ==
    \A key \in DOMAIN DEFAULT_ENHANCEMENT_VALUES :
        /\ vals[key] >= SliderRange(key).min
        /\ vals[key] <= SliderRange(key).max

\* C22: the values the session holds and the values it passes to
\* applyAdjustments have every field inside its range, before and after
\* every step; a slider change sets its field to the position clamped to the
\* field's range and leaves the other fields as they were.
C22_ValuesStayInRange ==
    [][/\ InRange(values)
       /\ InRange(values')
       /\ outputCanvasRef' # NULL => InRange(outputCanvasRef'.opts)
       /\ lastCall'.op = "onChange" =>
             LET key == lastCall'.arg.key
                 range == SliderRange(key)
                 position == lastCall'.arg.position
                 clamped == IF position < range.min THEN range.min
                            ELSE IF position > range.max THEN range.max
                            ELSE position
             IN  /\ values'[key] = clamped
                 /\ \A other \in DOMAIN values \ {key} :
                        values'[other] = values[other]
                 /\ outputCanvasRef'.opts.brightness = values'.brightness
                 /\ outputCanvasRef'.opts.rotation = values'.rotation]_vars

\* a rotation thumb position of 90 arrived while brightness was 50: rotation
\* is 45, brightness still 50, and the canvas was rendered with both
C22_Witness ==
    /\ lastCall.op = "onChange"
    /\ lastCall.arg.key = "rotation"
    /\ lastCall.arg.position = 90
    /\ values.rotation = 45
    /\ values.brightness = 50
    /\ outputCanvasRef.opts.rotation = 45
    /\ outputCanvasRef.opts.brightness = 50

\* one box-blur pass in whole numbers: each colour channel is the rounded
\* ninth of the sum of the nine samples around the pixel, the samples outside
\* the image taken from its nearest pixel; alpha as in the input
boxBlur(img) ==
    LET at(x, y, ch) ==
            img.data[Min(img.height - 1, Max(0, y)) * img.width
                       + Min(img.width - 1, Max(0, x)) + 1][ch]
        sum(x, y, ch) ==
            at(x - 1, y - 1, ch) + at(x, y - 1, ch) + at(x + 1, y - 1, ch)
              + at(x - 1, y, ch) + at(x, y, ch) + at(x + 1, y, ch)
              + at(x - 1, y + 1, ch) + at(x, y + 1, ch) + at(x + 1, y + 1, ch)
        ninth(x, y, ch) == (2 * sum(x, y, ch) + 9) \div 18
    IN  [i \in 1..(img.width * img.height) |->
            LET x == (i - 1) % img.width
                y == (i - 1) \div img.width
            IN  [r |-> ninth(x, y, "r"), g |-> ninth(x, y, "g"),
                 b |-> ninth(x, y, "b"), a |-> img.data[i].a]]

\* the bitmap with the pixels of one box-blur pass over img
blurred(img) == [img EXCEPT !.obj = @ + 1, !.data = boxBlur(img)]

\* C23: NoiseReduction with an intensity in 1..100 applies
\* round((intensity / 100) * 2) box-blur passes, each over the result of the
\* pass before: none for 1..24 (the input itself is returned), one for
\* 25..74, two for 75..100.
C23_NoisePasses ==
    (fnCall.op = "applyNoiseReduction" /\ fnCall.arg \in 1..100)
      => /\ fnCall.arg \in 1..24 => fnCall.out = workCanvas
         /\ fnCall.arg \in 25..74 => fnCall.out = blurred(workCanvas)
         /\ fnCall.arg \in 75..100 => fnCall.out = blurred(blurred(workCanvas))

\* intensity 75 on a column of three colours: the second pass changes the
\* result of the first
C23_Witness ==
    /\ fnCall.op = "applyNoiseReduction"
    /\ fnCall.arg = 75
    /\ workCanvas.data = <<RED, TEAL, SMOKE>>
    /\ fnCall.out.data = boxBlur(blurred(workCanvas))
    /\ fnCall.out.data # boxBlur(workCanvas)

\* the pixels of img with each colour channel c replaced by f[c], alpha kept
channelwise(img, f) ==
    [i \in 1..(img.width * img.height) |->
        [r |-> f[img.data[i].r], g |-> f[img.data[i].g],
         b |-> f[img.data[i].b], a |-> img.data[i].a]]

\* a value limited to 0..255
limit(v) == IF v < 0 THEN 0 ELSE IF v > 255 THEN 255 ELSE v

\* round(channel + (b / 100) * 128), in whole numbers
brightened(channel, b) == limit((200 * channel + 256 * b + 100) \div 200)

\* C24: Brightness with b # 0 maps each of R, G, B to
\* clamp(round(channel + (b / 100) * 128), 0, 255) and leaves alpha and the
\* dimensions as they are; with b = 50 a solid red bitmap becomes
\* (255, 64, 64, 255) in every pixel.
C24_Brightness ==
    (fnCall.op = "applyBrightness" /\ fnCall.arg # 0)
      => /\ fnCall.out.width = workCanvas.width
         /\ fnCall.out.height = workCanvas.height
         /\ fnCall.out.data
              = channelwise(workCanvas, [c \in 0..255 |-> brightened(c, fnCall.arg)])
         /\ (fnCall.arg = 50 /\ \A i \in DOMAIN workCanvas.data : workCanvas.data[i] = RED)
              => \A i \in DOMAIN fnCall.out.data :
                    fnCall.out.data[i] = [r |-> 255, g |-> 64, b |-> 64, a |-> 255]

\* Brightness 50 on the solid red 2 x 2 bitmap
C24_Witness ==
    /\ fnCall.op = "applyBrightness"
    /\ fnCall.arg = 50
    /\ workCanvas.data = <<RED, RED, RED, RED>>
    /\ fnCall.out.data[4] = [r |-> 255, g |-> 64, b |-> 64, a |-> 255]

\* round(factor * (channel - 128) + 128) with
\* factor = 259 (c + 255) / (255 (259 - c)), in whole numbers
contrasted(channel, c) ==
    LET N == 259 * (c + 255) * (channel - 128)
        D == 255 * (259 - c)
    IN  limit((2 * N + 257 * D) \div (2 * D))

\* C25: Contrast with c # 0 maps each of R, G, B to
\* clamp(round(factor * (channel - 128) + 128), 0, 255) with
\* factor = 259 (c + 255) / (255 (259 - c)) and leaves alpha and the
\* dimensions as they are; with c = 100 a channel of 64 becomes 0.
C25_Contrast ==
    (fnCall.op = "applyContrast" /\ fnCall.arg # 0)
      => /\ fnCall.out.width = workCanvas.width
         /\ fnCall.out.height = workCanvas.height
         /\ fnCall.out.data
              = channelwise(workCanvas, [ch \in 0..255 |-> contrasted(ch, fnCall.arg)])
         /\ fnCall.arg = 100
              => \A i \in DOMAIN workCanvas.data :
                    workCanvas.data[i].r = 64 => fnCall.out.data[i].r = 0

\* Contrast 100 on a bitmap whose first pixel has a red channel of 64
C25_Witness ==
    /\ fnCall.op = "applyContrast"
    /\ fnCall.arg = 100
    /\ workCanvas.data[1] = TEAL
    /\ fnCall.out.data[1] = [r |-> 0, g |-> 128, b |-> 255, a |-> 255]

\* C26: Saturation with 0 gives, for every pixel, R = G = B and the alpha of
\* the input pixel, in a bitmap of the same dimensions.
C26_Desaturates ==
    (fnCall.op = "applySaturation" /\ fnCall.arg = 0)
      => /\ fnCall.out.width = workCanvas.width
         /\ fnCall.out.height = workCanvas.height
         /\ DOMAIN fnCall.out.data = DOMAIN workCanvas.data
         /\ \A i \in DOMAIN workCanvas.data :
              /\ fnCall.out.data[i].r = fnCall.out.data[i].g
              /\ fnCall.out.data[i].g = fnCall.out.data[i].b
              /\ fnCall.out.data[i].a = workCanvas.data[i].a

\* Saturation 0 on a coloured opaque pixel next to a coloured translucent one
C26_Witness ==
    /\ fnCall.op = "applySaturation"
    /\ fnCall.arg = 0
    /\ workCanvas.data = <<TEAL, SMOKE>>
    /\ fnCall.out.data = <<[r |-> 132, g |-> 132, b |-> 132, a |-> 255],
                           [r |-> 75, g |-> 75, b |-> 75, a |-> 128]>>

\* the kernel a filter gives to the convolution, in whole numbers: the weight
\* of the pixel itself, the weight of each of its eight neighbours and the
\* number the sum is divided by
kernelOf(name, v) ==
    IF name = "applySharpen" THEN [center |-> 100 + 8 * v, edge |-> 0 - v, den |-> 100]
    ELSE [center |-> 1, edge |-> 1, den |-> 9]

\* the pixels of the convolution with edge replication, in whole numbers:
\* a neighbour outside the image is the nearest pixel of the image
replicated(img, kernel) ==
    LET at(x, y, ch) ==
            img.data[Min(img.height - 1, Max(0, y)) * img.width
                       + Min(img.width - 1, Max(0, x)) + 1][ch]
        around(x, y, ch) ==
            at(x - 1, y - 1, ch) + at(x, y - 1, ch) + at(x + 1, y - 1, ch)
              + at(x - 1, y, ch) + at(x + 1, y, ch)
              + at(x - 1, y + 1, ch) + at(x, y + 1, ch) + at(x + 1, y + 1, ch)
        sum(x, y, ch) == kernel.center * at(x, y, ch) + kernel.edge * around(x, y, ch)
        value(x, y, ch) == limit((2 * sum(x, y, ch) + kernel.den) \div (2 * kernel.den))
    IN  [i \in 1..(img.width * img.height) |->
            LET x == (i - 1) % img.width
                y == (i - 1) \div img.width
            IN  [r |-> value(x, y, "r"), g |-> value(x, y, "g"),
                 b |-> value(x, y, "b"), a |-> img.data[i].a]]

\* a call that is one convolution of the bitmap
oneConvolution ==
    \/ fnCall.op = "applySharpen" /\ fnCall.arg > 0
    \/ fnCall.op = "applyNoiseReduction" /\ fnCall.arg \in 25..74

\* C27: the convolution returns a bitmap of the same dimensions, with the
\* alpha of the input at every pixel and R, G, B computed from the 3 x 3
\* neighbourhood with the coordinates limited to the image (edge
\* replication); every sample offset lies inside the pixel buffer, for every
\* pixel, corners and bitmaps one pixel wide or high included.
C27_ConvolutionReplicatesEdges ==
    oneConvolution
      => /\ fnCall.out.width = workCanvas.width
         /\ fnCall.out.height = workCanvas.height
         /\ \A i \in DOMAIN workCanvas.data :
              fnCall.out.data[i].a = workCanvas.data[i].a
         /\ fnCall.out.data = replicated(workCanvas, kernelOf(fnCall.op, fnCall.arg))
         /\ \A p \in Pixels(workCanvas.width, workCanvas.height) :
              \A kx \in -1..1 : \A ky \in -1..1 :
                 inBuffer(workCanvas,
                          sampleIdx(workCanvas.width, workCanvas.height,
                                    p[1], p[2], kx, ky))

\* sharpening a bitmap one pixel wide: every pixel samples beyond both sides
C27_Witness ==
    /\ fnCall.op = "applySharpen"
    /\ fnCall.arg = 50
    /\ workCanvas.width = 1
    /\ workCanvas.data = <<RED, TEAL, SMOKE>>
    /\ fnCall.out.data = replicated(workCanvas, kernelOf("applySharpen", 50))
    /\ fnCall.out.data # workCanvas.data

\* C28: upscaleImage applies a sharpening convolution after its upscaling
\* passes: the base bitmap of the session has been sharpened after it was
\* upscaled.
C28_UpscaleSharpens ==
    baseCanvasRef # NULL
      => \E i \in DOMAIN baseCanvasRef.pixels : \E j \in DOMAIN baseCanvasRef.pixels :
            /\ i < j
            /\ baseCanvasRef.pixels[i].op = "upscale"
            /\ baseCanvasRef.pixels[j].op \in {"sharpen", "convolution"}

\* C29: finalizeUpload never traps, whatever the session holds: a session
\* whose indices are not exactly 0..totalChunks-1 (one that holds an index
\* >= totalChunks among them) gets a reply with ok = null and an err text,
\* not the trap of assembleChunks.
C29_FinalizeNeverTraps ==
    [][response'.op = "finalizeUpload" =>
         LET sessionId == response'.arg.sessionId
             reply == response'.reply
         IN  /\ ~reply.trap
             /\ (/\ has(uploadSessions, sessionId)
                 /\ DOMAIN uploadSessions[sessionId].receivedChunks
                      # 0..(uploadSessions[sessionId].totalChunks - 1))
                  => /\ reply.value.ok = NULL
                     /\ reply.value.err # Text("")
                     /\ uploadSessions' = uploadSessions]_vars

\* a session of two chunks that holds the indices 0 and 2 was finalized
C29_Witness ==
    /\ response.op = "finalizeUpload"
    /\ has(uploadSessions, response.arg.sessionId)
    /\ uploadSessions[response.arg.sessionId].totalChunks = 2
    /\ DOMAIN uploadSessions[response.arg.sessionId].receivedChunks = {0, 2}
    /\ response.reply = Result([ok |-> NULL, err |-> TextId("missing chunk at index ", 1)])

\* C30: for a non-empty byte array and a chunk size >= 1, splitIntoChunks
\* gives ceil(length / chunkSize) chunks, each of at most chunkSize bytes and
\* all but the last of exactly chunkSize bytes; after the chunks were
\* uploaded by index, finalizeUpload returns an enhancedImage that equals the
\* array byte for byte.
C30_RoundTrip ==
    LET bytes == imageBytesRef.bytes
        chunkSize == run.chunkSize
        chunks == run.chunks
    IN  /\ Len(chunks) = (Len(bytes) + chunkSize - 1) \div chunkSize
        /\ \A k \in 1..Len(chunks) :
              /\ Len(chunks[k]) <= chunkSize
              /\ k < Len(chunks) => Len(chunks[k]) = chunkSize
        /\ response.op = "finalizeUpload"
              => /\ ~response.reply.trap
                 /\ response.reply.value.ok # NULL
                 /\ response.reply.value.ok.enhancedImage = bytes

\* three bytes in chunks of two: a full chunk and a shorter last one came
\* back joined
C30_Witness ==
    /\ response.op = "finalizeUpload"
    /\ imageBytesRef.bytes = <<137, 0, 255>>
    /\ run.chunks = << <<137, 0>>, <<255>> >>
    /\ response.reply.value.ok # NULL
    /\ response.reply.value.ok.enhancedImage = <<137, 0, 255>>

\* the file a blob URL was created for
fileOf(url) == CHOOSE file \in Files : ObjectUrl(file) = url

\* the chunks of a run joined in the order of their indices
RECURSIVE joined(_)
joined(chunks) == IF chunks = << >> THEN << >> ELSE Head(chunks) \o joined(Tail(chunks))

\* C31: a pending read never corrupts the selection of the App: while the
\* App is ready or done, it holds the URL and the bytes of the file whose
\* preview the uploader shows (so a read that completes after a reset does
\* not put the App back into 'ready'), and the bytes a run uploads are the
\* bytes of that file.
C31_SelectionFollowsPreview ==
    /\ appState \in {"ready", "done"}
          => /\ preview # NULL
             /\ originalUrl = preview
             /\ imageBytesRef = [bytes |-> fileOf(preview).bytes]
    /\ run # NULL
          => /\ preview # NULL
             /\ joined(run.chunks) = fileOf(preview).bytes

C34_FailedFinalizeChangesNothing ==
    [][(/\ response'.op = "finalizeUpload"
        /\ \/ response'.arg.sessionId \notin DOMAIN uploadSessions
           \/ Cardinality(DOMAIN uploadSessions[response'.arg.sessionId].receivedChunks)
                # uploadSessions[response'.arg.sessionId].totalChunks)
         => /\ ~response'.reply.trap
            /\ response'.reply.value.ok = NULL
            /\ response'.reply.value.err # Text("")
            /\ uploadSessions' = uploadSessions
            /\ images' = images
            /\ nextImageId' = nextImageId]_vars

\* a session of two chunks was finalized with one chunk uploaded, and still
\* holds that chunk
C34_Witness ==
    /\ response.op = "finalizeUpload"
    /\ response.reply = Result([ok |-> NULL, err |-> Text("all chunks not received yet")])
    /\ has(uploadSessions, response.arg.sessionId)
    /\ uploadSessions[response.arg.sessionId].totalChunks = 2
    /\ uploadSessions[response.arg.sessionId].receivedChunks = add(EmptyMap, 0, <<2, 3>>)
    /\ images = EmptyMap

\* the sessions that were opened and are no longer there
consumed == DOMAIN arrivals \ DOMAIN uploadSessions

\* C35: a finalizeUpload that succeeds consumes the session once: the bytes
\* it returns are stored under the imageId it returns and getImageRaw
\* returns these bytes from then on, the session is removed, every later
\* finalizeUpload on its id returns 'no upload session found' and every
\* later uploadChunk on it is rejected.
C35_FinalizeConsumesSession ==
    [][/\ (response'.op = "finalizeUpload" /\ response'.reply.value.ok # NULL)
          => /\ response'.arg.sessionId \in DOMAIN uploadSessions
             /\ response'.arg.sessionId \notin DOMAIN uploadSessions'
             /\ response'.reply.value.ok.imageId \in DOMAIN images'
             /\ images'[response'.reply.value.ok.imageId]
                  = response'.reply.value.ok.enhancedImage
       /\ \A imageId \in DOMAIN images :
             /\ imageId \in DOMAIN images'
             /\ images'[imageId] = images[imageId]
       /\ (response'.op = "getImageRaw" /\ response'.arg.imageId \in DOMAIN images)
          => response'.reply = Result(images[response'.arg.imageId])
       /\ consumed \subseteq consumed'
       /\ (response'.op = "finalizeUpload" /\ response'.arg.sessionId \in consumed)
          => response'.reply
               = Result([ok |-> NULL, err |-> Text("no upload session found")])
       /\ (response'.op = "uploadChunk" /\ response'.arg.sessionId \in consumed)
          => /\ response'.reply.trap
             /\ uploadSessions' = uploadSessions
             /\ images' = images]_vars

\* a chunk was uploaded to a session that had been finalized
C35_Witness ==
    /\ response.op = "uploadChunk"
    /\ response.arg.sessionId \in consumed
    /\ response.reply = Trap("Upload session not found")
    /\ \E imageId \in DOMAIN images : images[imageId] = <<2, 3>>

\* C36: identifiers are never reused: the session id initUpload returns
\* differs from every session id returned before, the image id of a
\* finalizeUpload differs from every image id given before, and no stored
\* image is overwritten or dropped.
C36_IdsNeverReused ==
    [][/\ response'.op = "initUpload"
          => /\ ~response'.reply.trap
             /\ response'.reply.value \notin DOMAIN arrivals
             /\ response'.reply.value \notin DOMAIN images
             /\ DOMAIN uploadSessions' = DOMAIN uploadSessions \cup {response'.reply.value}
       /\ (response'.op = "finalizeUpload" /\ response'.reply.value.ok # NULL)
          => /\ response'.reply.value.ok.imageId \notin DOMAIN images
             /\ response'.reply.value.ok.imageId \notin DOMAIN arrivals
             /\ DOMAIN images' = DOMAIN images \cup {response'.reply.value.ok.imageId}
       /\ \A imageId \in DOMAIN images :
             imageId \in DOMAIN images' /\ images'[imageId] = images[imageId]
       /\ nextImageId' >= nextImageId]_vars

\* two sessions were opened and both were finalized into images of their own
C36_Witness ==
    /\ response.op = "finalizeUpload"
    /\ DOMAIN arrivals = {TextId("Session-", 0), TextId("Session-", 1)}
    /\ DOMAIN images = {TextId("image-", 2), TextId("image-", 3)}
    /\ uploadSessions = EmptyMap

\* the indices a log of uploads holds
indicesOf(log) == {log[k].chunkIndex : k \in DOMAIN log}

\* what finalizeUpload answers for a session, from the uploads made under
\* its id alone: the err text, or the bytes in index order
outcomeOf(log, totalChunks) ==
    IF Cardinality(indicesOf(log)) # totalChunks
    THEN [ok |-> FALSE, err |-> Text("all chunks not received yet")]
    ELSE IF \E i \in 0..(totalChunks - 1) : i \notin indicesOf(log)
    THEN [ok |-> FALSE,
          err |-> TextId("missing chunk at index ",
                         CHOOSE i \in 0..(totalChunks - 1) :
                            /\ i \notin indicesOf(log)
                            /\ \A j \in 0..(i - 1) : j \in indicesOf(log))]
    ELSE [ok |-> TRUE, enhancedImage |-> inIndexOrder(log, 0, totalChunks)]

\* the other sessions are there as before
othersKept(sessionId) ==
    \A other \in DOMAIN uploadSessions \ {sessionId} :
        /\ other \in DOMAIN uploadSessions'
        /\ uploadSessions'[other] = uploadSessions[other]

\* C37: sessions are isolated under interleaving: the result of a
\* finalizeUpload (its err, or its bytes) is determined by the chunks that
\* were uploaded under the id of its session, and neither an uploadChunk nor
\* a finalizeUpload removes or alters another session.
C37_SessionsIsolated ==
    [][/\ (response'.op = "finalizeUpload"
           /\ response'.arg.sessionId \in DOMAIN uploadSessions)
          => LET sessionId == response'.arg.sessionId
                 expected == outcomeOf(arrivals[sessionId],
                                       uploadSessions[sessionId].totalChunks)
                 reply == response'.reply
             IN  /\ ~reply.trap
                 /\ IF expected.ok
                    THEN /\ reply.value.ok # NULL
                         /\ reply.value.ok.enhancedImage = expected.enhancedImage
                    ELSE /\ reply.value.ok = NULL
                         /\ reply.value.err = expected.err
                 /\ othersKept(sessionId)
       /\ response'.op = "uploadChunk" => othersKept(response'.arg.sessionId)]_vars

\* two sessions of one chunk each received their chunks, the second before
\* the first; the first was finalized and the second still holds its chunk
C37_Witness ==
    /\ response.op = "finalizeUpload"
    /\ response.arg.sessionId = TextId("Session-", 0)
    /\ response.reply.value.ok # NULL
    /\ response.reply.value.ok.enhancedImage = <<1>>
    /\ DOMAIN uploadSessions = {TextId("Session-", 1)}
    /\ uploadSessions[TextId("Session-", 1)].receivedChunks = add(EmptyMap, 0, <<2, 3>>)
    /\ arrivals[TextId("Session-", 0)] = <<[chunkIndex |-> 0, data |-> <<1>>]>>

----------------------------------------------------------------------------
\* C38: within one upload run the first call is initUpload; uploadChunk is
\* called for the indices 0 .. totalChunks-1 in ascending order, one call in
\* flight at a time, each made when the call before it has settled;
\* finalizeUpload is called when every chunk upload has settled; the fraction
\* reported never decreases, is (i+1)/totalChunks when chunk i has settled,
\* and the phase 'enhancing' is reported with the fraction 1, all chunks
\* uploaded, and only then.
totalChunks == Len(run.chunks)
C38_UploadRunInOrder ==
    [][ /\ (run = NULL /\ run' # NULL)
           => /\ run'.pc = "initUpload"
              /\ run'.i = 0
              /\ uploadProgress' = [phase |-> "uploading", fraction |-> [n |-> 0, d |-> 1]]
        /\ (run # NULL /\ run' # NULL /\ run' # run)
           => /\ run'.chunks = run.chunks
              /\ run.pc # "finalizeUpload"
              /\ run.pc = "initUpload"
                    => /\ run'.i = 0
                       /\ run'.pc = IF totalChunks = 0 THEN "finalizeUpload" ELSE "uploadChunk"
              /\ run.pc = "uploadChunk"
                    => /\ run.i < totalChunks
                       /\ run'.i = run.i + 1
                       /\ run'.pc = IF run'.i = totalChunks THEN "finalizeUpload" ELSE "uploadChunk"
                       /\ uploadProgress' # NULL
                       /\ uploadProgress'.fraction.n * totalChunks
                             = (run.i + 1) * uploadProgress'.fraction.d
              /\ run'.pc = "finalizeUpload"
                    => /\ run'.i = totalChunks
                       /\ uploadProgress' = [phase |-> "enhancing", fraction |-> [n |-> 1, d |-> 1]]
              /\ (uploadProgress' # NULL /\ uploadProgress'.phase = "enhancing")
                    => run'.pc = "finalizeUpload"
              /\ (uploadProgress # NULL /\ uploadProgress' # NULL)
                    => uploadProgress.fraction.n * uploadProgress'.fraction.d
                          <= uploadProgress'.fraction.n * uploadProgress.fraction.d
      ]_vars
\* the second of two chunks is in flight and half of the upload is reported
C38_Witness ==
    /\ run # NULL
    /\ run.pc = "uploadChunk"
    /\ run.i = 1
    /\ Len(run.chunks) = 2
    /\ uploadProgress = Progress("uploading", Rat(1, 2))

----------------------------------------------------------------------------
\* C39: at most one upload/enhance run is in flight at any time: a run is
\* started only when none is in flight, the mutation is pending exactly while
\* a run is in flight, and whatever the user does meanwhile (Enhance, Reset,
\* the X button, a file selection, a mode button), a run in flight either
\* goes on as the same run (same chunks, file type and mode, past its first
\* call) or settles.
sameRun(before, after) ==
    /\ after.chunks = before.chunks
    /\ after.fileType = before.fileType
    /\ after.enhancementMode = before.enhancementMode
C39_OneRunInFlight ==
    [][ /\ (run' # NULL /\ run' # run /\ run'.pc = "initUpload") => run = NULL
        /\ (run # NULL /\ run' # NULL /\ run' # run)
              => /\ sameRun(run, run')
                 /\ run'.pc # "initUpload"
        /\ (mutation'.status = "pending") <=> (run' # NULL)
      ]_vars
\* a run is in flight while the Enhance button is shown: a file read that
\* completed during the run has put the App back to 'ready'
C39_Witness ==
    /\ run # NULL
    /\ appState = "ready"
    /\ originalUrl # NULL
    /\ imageBytesRef # NULL

====
